---- MODULE Spec2Model ----
(***************************************************************************)
(* Continuous-batching inference runner of EasyDeL (eSurge):               *)
(*   easydel/inference/esurge/runners/sequence_buffer.py  SequenceBuffer   *)
(*   easydel/inference/esurge/runners/model_runner.py     eSurgeRunner     *)
(*                                                                         *)
(* Conventions                                                             *)
(*   - Python None is the empty tuple, an optional value x is <<x>>.       *)
(*   - A Python dict is a function whose DOMAIN is the set of its keys.    *)
(*   - Slots are 0-based as in the source; the Python lists _req_ids and   *)
(*     req_output_token_ids are TLA+ sequences, so slot i is element i+1.  *)
(*   - float32 sampling values are kept in tenths (0.7 is 7, 1.0 is 10,    *)
(*     the greedy sentinel -1.0 is -10).                                   *)
(***************************************************************************)
EXTENDS Integers, Sequences, FiniteSets, TLC

\* ------------------------------------------------------------------------
\* Configuration of the runner (small instances of the constructor's
\* arguments) and bounds of the environment.
\* ------------------------------------------------------------------------
max_num_reqs == 3
max_model_len == 16
page_size == 4
vocab_size == 3
MetadataMaxNumSeqs == 2
PagesPerBank == 2
ChunkSize == 2
MaxOutputLen == 2
MaxTokenSize == 40
MaxPadTokens == 50
MaxSlicesPerPage == 3

ReqIds == {"A", "B", "C"}
Slots == 0..(max_num_reqs - 1)
Positions == 0..(max_model_len - 1)
SampledTokens == {1, 2}

None == <<>>
Some(x) == <<x>>
NoReq == "None"
EmptyDict == <<>>

Min(a, b) == IF a <= b THEN a ELSE b
SetMax(S) == CHOOSE x \in S : \A y \in S : y <= x
SetMin(S) == CHOOSE x \in S : \A y \in S : x <= y

DictSet(d, k, v) == [x \in (DOMAIN d) \cup {k} |-> IF x = k THEN v ELSE d[x]]
DictPop(d, k) == [x \in (DOMAIN d) \ {k} |-> d[x]]
swap_dict_values(d, k1, k2) ==
    [x \in (((DOMAIN d) \ {k1, k2})
              \cup (IF k2 \in DOMAIN d THEN {k1} ELSE {})
              \cup (IF k1 \in DOMAIN d THEN {k2} ELSE {})) |->
        IF x = k1 THEN d[k2] ELSE IF x = k2 THEN d[k1] ELSE d[x]]

\* ------------------------------------------------------------------------
\* Requests.  Prompt and sampling parameters are immutable per request.
\* ------------------------------------------------------------------------
GreedyParams ==
    [sampling_type |-> "GREEDY", temperature |-> 10, top_p |-> 10, top_k |-> 0,
     min_p |-> 0, frequency_penalty |-> 0, presence_penalty |-> 0,
     repetition_penalty |-> 10, min_tokens |-> 0, all_stop_token_ids |-> {},
     logit_bias |-> None, allowed_token_ids |-> <<>>,
     bad_words_token_ids |-> <<>>]

SamplingParamsOf(r) ==
    CASE r = "A" -> GreedyParams
      [] r = "B" -> [GreedyParams EXCEPT
                       !.sampling_type = "RANDOM", !.temperature = 7,
                       !.top_p = 9, !.frequency_penalty = 5,
                       !.repetition_penalty = 12, !.min_tokens = 1,
                       !.all_stop_token_ids = {2},
                       !.logit_bias = Some([t \in {1} |-> 5])]
      [] OTHER   -> [GreedyParams EXCEPT
                       !.sampling_type = "RANDOM", !.top_k = 2, !.min_p = 1,
                       !.presence_penalty = 3, !.allowed_token_ids = <<1, 2>>,
                       !.bad_words_token_ids = << <<0>> >>]

PromptOf(r) ==
    CASE r = "A" -> <<1, 2, 1, 2>>
      [] r = "B" -> <<2>>
      [] OTHER   -> <<1, 1>>

GeneratorSeedOf(r) == IF r = "C" THEN Some(7) ELSE None

\* CachedRequestState.num_tokens
RequestNumTokens(request) ==
    Len(request.prompt_token_ids) + Len(request.output_token_ids)

\* ------------------------------------------------------------------------
\* PageTable: one row of physical page ids per slot.
\* ------------------------------------------------------------------------
page_table_add_row(pt, page_ids, row) == [pt EXCEPT ![row] = page_ids]
page_table_append_row(pt, new_page_ids, row) == [pt EXCEPT ![row] = @ \o new_page_ids]
page_table_move_row(pt, src, tgt) == [pt EXCEPT ![tgt] = pt[src]]
page_table_swap_row(pt, a, b) == [pt EXCEPT ![a] = pt[b], ![b] = pt[a]]
\* get_array()[row, col]: the table is dense and zero-filled; what lies past
\* the pages written to a row is not a page of the request.
page_table_get(pt, row, col) == IF col < Len(pt[row]) THEN pt[row][col + 1] ELSE 0

\* ------------------------------------------------------------------------
\* SequenceBuffer
\* ------------------------------------------------------------------------
SequenceBufferInit ==
    [_req_ids |-> <<>>,
     req_id_to_index |-> EmptyDict,
     req_output_token_ids |-> <<>>,
     token_ids |-> [s \in Slots |-> [p \in Positions |-> 0]],
     num_tokens |-> [s \in Slots |-> 0],
     num_tokens_no_spec |-> [s \in Slots |-> 0],
     num_prompt_tokens |-> [s \in Slots |-> 0],
     num_computed_tokens |-> [s \in Slots |-> 0],
     page_table |-> [s \in Slots |-> <<>>],
     temperature |-> [s \in Slots |-> -10],
     top_p |-> [s \in Slots |-> 10],
     top_k |-> [s \in Slots |-> vocab_size],
     min_p |-> [s \in Slots |-> 0],
     frequency_penalties |-> [s \in Slots |-> 0],
     presence_penalties |-> [s \in Slots |-> 0],
     repetition_penalties |-> [s \in Slots |-> 10],
     greedy_reqs |-> {},
     random_reqs |-> {},
     top_p_reqs |-> {},
     top_k_reqs |-> {},
     min_p_reqs |-> {},
     frequency_penalties_reqs |-> {},
     presence_penalties_reqs |-> {},
     repetition_penalties_reqs |-> {},
     has_allowed_token_ids |-> {},
     min_tokens |-> EmptyDict,
     generator_seeds |-> EmptyDict,
     logit_bias |-> [s \in Slots |-> None],
     allowed_token_ids_mask |-> None,
     bad_words_token_ids |-> EmptyDict]

num_reqs(sb) == Cardinality(DOMAIN sb.req_id_to_index)

\* the copy that leaves the output tokens out
_copy_tokens_prompt_only(sb, request, req_index) ==
    LET num_prompt_tokens == Len(request.prompt_token_ids)
    IN  [sb EXCEPT
           !.num_prompt_tokens[req_index] = num_prompt_tokens,
           !.token_ids[req_index] =
               [p \in Positions |->
                  IF p < num_prompt_tokens THEN request.prompt_token_ids[p + 1]
                  ELSE @[p]]]

_copy_tokens(sb, request, req_index) ==
    LET num_prompt_tokens == Len(request.prompt_token_ids)
        out == request.output_token_ids
    IN  [sb EXCEPT
           !.num_prompt_tokens[req_index] = num_prompt_tokens,
           !.token_ids[req_index] =
               [p \in Positions |->
                  IF p < num_prompt_tokens THEN request.prompt_token_ids[p + 1]
                  ELSE IF p < num_prompt_tokens + Len(out)
                       THEN out[p - num_prompt_tokens + 1]
                       ELSE @[p]]]

_process_sampling_params(sb, sampling_params, req_id, req_index) ==
    LET greedy == sampling_params.sampling_type = "GREEDY"
        top_k == sampling_params.top_k
        top_k_on == 0 < top_k /\ top_k < vocab_size
        freq_on == sampling_params.frequency_penalty # 0
        pres_on == sampling_params.presence_penalty # 0
        rep_on == sampling_params.repetition_penalty # 10
    IN  [sb EXCEPT
           !.temperature[req_index] =
               IF greedy THEN -10 ELSE sampling_params.temperature,
           !.greedy_reqs = IF greedy THEN @ \cup {req_id} ELSE @,
           !.random_reqs = IF greedy THEN @ ELSE @ \cup {req_id},
           !.top_p[req_index] = sampling_params.top_p,
           !.top_p_reqs = IF sampling_params.top_p < 10 THEN @ \cup {req_id} ELSE @,
           !.top_k_reqs = IF top_k_on THEN @ \cup {req_id} ELSE @,
           !.top_k[req_index] = IF top_k_on THEN top_k ELSE vocab_size,
           !.min_p[req_index] = sampling_params.min_p,
           !.min_p_reqs = IF sampling_params.min_p > 0 THEN @ \cup {req_id} ELSE @,
           !.frequency_penalties[req_index] =
               IF freq_on THEN sampling_params.frequency_penalty ELSE @,
           !.frequency_penalties_reqs = IF freq_on THEN @ \cup {req_id} ELSE @,
           !.presence_penalties[req_index] =
               IF pres_on THEN sampling_params.presence_penalty ELSE @,
           !.presence_penalties_reqs = IF pres_on THEN @ \cup {req_id} ELSE @,
           !.repetition_penalties[req_index] =
               IF rep_on THEN sampling_params.repetition_penalty ELSE @,
           !.repetition_penalties_reqs = IF rep_on THEN @ \cup {req_id} ELSE @]

SeqToSet(s) == {s[i] : i \in DOMAIN s}

_set_allowed_token_ids(sb, req_id, req_index, allowed_token_ids) ==
    LET mask == IF sb.allowed_token_ids_mask = None
                THEN [s \in Slots |-> [t \in 0..(vocab_size - 1) |-> FALSE]]
                ELSE sb.allowed_token_ids_mask[1]
    IN  [sb EXCEPT
           !.has_allowed_token_ids = @ \cup {req_id},
           !.allowed_token_ids_mask =
               Some([mask EXCEPT ![req_index] =
                       [t \in 0..(vocab_size - 1) |->
                          t \notin SeqToSet(allowed_token_ids)]])]

_process_optional_params(sb, request, sampling_params, req_id, req_index) ==
    LET sb1 == IF sampling_params.min_tokens # 0
               THEN [sb EXCEPT !.min_tokens =
                        DictSet(@, req_index,
                                <<sampling_params.min_tokens,
                                  sampling_params.all_stop_token_ids>>)]
               ELSE sb
        sb2 == IF request.generator_seed # None
               THEN [sb1 EXCEPT !.generator_seeds =
                        DictSet(@, req_index, request.generator_seed[1])]
               ELSE sb1
        sb3 == IF sampling_params.logit_bias # None
               THEN [sb2 EXCEPT !.logit_bias[req_index] = sampling_params.logit_bias]
               ELSE sb2
        sb4 == IF sampling_params.allowed_token_ids # <<>>
               THEN _set_allowed_token_ids(sb3, req_id, req_index,
                                           sampling_params.allowed_token_ids)
               ELSE sb3
    IN  IF sampling_params.bad_words_token_ids # <<>>
        THEN [sb4 EXCEPT !.bad_words_token_ids =
                 DictSet(@, req_index, sampling_params.bad_words_token_ids)]
        ELSE sb4

\* The slot add_request writes: the given one, or num_reqs when None.
add_request_index(sb, req_index) ==
    IF req_index = None THEN num_reqs(sb) ELSE req_index[1]

add_request(sb, request, req_index_arg) ==
    LET req_index == add_request_index(sb, req_index_arg)
        req_id == request.req_id
        sb1 == IF req_index = Len(sb._req_ids)
               THEN [sb EXCEPT
                       !._req_ids = Append(@, req_id),
                       !.req_output_token_ids = Append(@, req_id)]
               ELSE [sb EXCEPT
                       !._req_ids[req_index + 1] = req_id,
                       !.req_output_token_ids[req_index + 1] = req_id]
        sb2 == [sb1 EXCEPT !.req_id_to_index = DictSet(@, req_id, req_index)]
        sb3 == _copy_tokens(sb2, request, req_index)
        sb4 == [sb3 EXCEPT
                  !.num_tokens[req_index] = RequestNumTokens(request),
                  !.num_tokens_no_spec[req_index] = RequestNumTokens(request),
                  !.num_computed_tokens[req_index] = request.num_computed_tokens,
                  !.page_table = page_table_add_row(@, request.page_ids, req_index)]
        sb5 == _process_sampling_params(sb4, request.sampling_params, req_id, req_index)
    IN  _process_optional_params(sb5, request, request.sampling_params, req_id, req_index)

\* remove_request that leaves the request in the membership sets
remove_request_keeps_sets(sb, req_id) ==
    IF req_id \notin DOMAIN sb.req_id_to_index THEN sb
    ELSE
    LET req_index == sb.req_id_to_index[req_id]
    IN  [sb EXCEPT
           !.req_id_to_index = DictPop(@, req_id),
           !._req_ids[req_index + 1] = NoReq,
           !.req_output_token_ids[req_index + 1] = NoReq,
           !.min_tokens = DictPop(@, req_index),
           !.generator_seeds = DictPop(@, req_index),
           !.logit_bias[req_index] = None,
           !.bad_words_token_ids = DictPop(@, req_index),
           !.allowed_token_ids_mask =
               IF @ = None THEN None
               ELSE Some([sb.allowed_token_ids_mask[1] EXCEPT ![req_index] =
                            [t \in 0..(vocab_size - 1) |-> FALSE]])]

remove_request(sb, req_id) ==
    IF req_id \notin DOMAIN sb.req_id_to_index THEN sb
    ELSE
    LET req_index == sb.req_id_to_index[req_id]
    IN  [sb EXCEPT
           !.req_id_to_index = DictPop(@, req_id),
           !._req_ids[req_index + 1] = NoReq,
           !.req_output_token_ids[req_index + 1] = NoReq,
           !.greedy_reqs = @ \ {req_id},
           !.random_reqs = @ \ {req_id},
           !.top_p_reqs = @ \ {req_id},
           !.top_k_reqs = @ \ {req_id},
           !.min_p_reqs = @ \ {req_id},
           !.frequency_penalties_reqs = @ \ {req_id},
           !.presence_penalties_reqs = @ \ {req_id},
           !.repetition_penalties_reqs = @ \ {req_id},
           !.has_allowed_token_ids = @ \ {req_id},
           !.min_tokens = DictPop(@, req_index),
           !.generator_seeds = DictPop(@, req_index),
           !.logit_bias[req_index] = None,
           !.bad_words_token_ids = DictPop(@, req_index),
           !.allowed_token_ids_mask =
               IF @ = None THEN None
               ELSE Some([sb.allowed_token_ids_mask[1] EXCEPT ![req_index] =
                            [t \in 0..(vocab_size - 1) |-> FALSE]])]

\* the swap of the arrays that leaves the allowed-token mask rows in place
_swap_array_values_keeps_mask(sb, i1, i2) ==
    LET sw(a) == [a EXCEPT ![i1] = a[i2], ![i2] = a[i1]]
    IN  [sb EXCEPT
           !.num_tokens = sw(@),
           !.num_tokens_no_spec = sw(@),
           !.num_prompt_tokens = sw(@),
           !.num_computed_tokens = sw(@),
           !.temperature = sw(@),
           !.top_p = sw(@),
           !.top_k = sw(@),
           !.frequency_penalties = sw(@),
           !.presence_penalties = sw(@),
           !.repetition_penalties = sw(@),
           !.min_p = sw(@),
           !.token_ids = sw(@)]

_swap_array_values(sb, i1, i2) ==
    LET sw(a) == [a EXCEPT ![i1] = a[i2], ![i2] = a[i1]]
    IN  [sb EXCEPT
           !.num_tokens = sw(@),
           !.num_tokens_no_spec = sw(@),
           !.num_prompt_tokens = sw(@),
           !.num_computed_tokens = sw(@),
           !.temperature = sw(@),
           !.top_p = sw(@),
           !.top_k = sw(@),
           !.frequency_penalties = sw(@),
           !.presence_penalties = sw(@),
           !.repetition_penalties = sw(@),
           !.min_p = sw(@),
           !.token_ids = sw(@),
           !.allowed_token_ids_mask = IF @ = None THEN None ELSE Some(sw(@[1]))]

\* swap_states that exchanges the rows but leaves req_id_to_index as it was.
swap_states_stale_index(sb, i1, i2) ==
    LET sb1 == [sb EXCEPT
                  !._req_ids = [@ EXCEPT ![i1 + 1] = sb._req_ids[i2 + 1],
                                         ![i2 + 1] = sb._req_ids[i1 + 1]],
                  !.req_output_token_ids =
                      [@ EXCEPT ![i1 + 1] = sb.req_output_token_ids[i2 + 1],
                                ![i2 + 1] = sb.req_output_token_ids[i1 + 1]]]
        sb3 == _swap_array_values(sb1, i1, i2)
    IN  [sb3 EXCEPT
           !.generator_seeds = swap_dict_values(@, i1, i2),
           !.min_tokens = swap_dict_values(@, i1, i2),
           !.bad_words_token_ids = swap_dict_values(@, i1, i2),
           !.logit_bias = [@ EXCEPT ![i1] = sb3.logit_bias[i2], ![i2] = sb3.logit_bias[i1]],
           !.page_table = page_table_swap_row(@, i1, i2)]

swap_states(sb, i1, i2) ==
    LET old_id_i1 == sb._req_ids[i1 + 1]
        old_id_i2 == sb._req_ids[i2 + 1]
        sb1 == [sb EXCEPT
                  !._req_ids = [@ EXCEPT ![i1 + 1] = old_id_i2, ![i2 + 1] = old_id_i1],
                  !.req_output_token_ids =
                      [@ EXCEPT ![i1 + 1] = sb.req_output_token_ids[i2 + 1],
                                ![i2 + 1] = sb.req_output_token_ids[i1 + 1]]]
        sb2 == [sb1 EXCEPT !.req_id_to_index =
                   DictSet(DictSet(@, old_id_i1, i2), old_id_i2, i1)]
        sb3 == _swap_array_values(sb2, i1, i2)
    IN  [sb3 EXCEPT
           !.generator_seeds = swap_dict_values(@, i1, i2),
           !.min_tokens = swap_dict_values(@, i1, i2),
           !.bad_words_token_ids = swap_dict_values(@, i1, i2),
           !.logit_bias = [@ EXCEPT ![i1] = sb3.logit_bias[i2], ![i2] = sb3.logit_bias[i1]],
           !.page_table = page_table_swap_row(@, i1, i2)]

\* _move_sparse_data that pops the entries of the source slot but forgets to
\* store min_tokens and bad words under the target slot.
_move_sparse_data_drops_entries(sb, from_idx, to_idx) ==
    LET mv(d) == IF from_idx \in DOMAIN d
                 THEN DictSet(DictPop(d, from_idx), to_idx, d[from_idx])
                 ELSE d
    IN  [sb EXCEPT
           !.generator_seeds = mv(@),
           !.min_tokens = DictPop(@, from_idx),
           !.bad_words_token_ids = DictPop(@, from_idx),
           !.logit_bias = [@ EXCEPT ![to_idx] = sb.logit_bias[from_idx],
                                    ![from_idx] = None],
           !.allowed_token_ids_mask =
               IF @ = None THEN None
               ELSE Some([sb.allowed_token_ids_mask[1] EXCEPT
                            ![to_idx] = sb.allowed_token_ids_mask[1][from_idx],
                            ![from_idx] = [t \in 0..(vocab_size - 1) |-> FALSE]])]

_move_sparse_data(sb, from_idx, to_idx) ==
    LET mv(d) == IF from_idx \in DOMAIN d
                 THEN DictSet(DictPop(d, from_idx), to_idx, d[from_idx])
                 ELSE d
    IN  [sb EXCEPT
           !.generator_seeds = mv(@),
           !.min_tokens = mv(@),
           !.bad_words_token_ids = mv(@),
           !.logit_bias = [@ EXCEPT ![to_idx] = sb.logit_bias[from_idx],
                                    ![from_idx] = None],
           !.allowed_token_ids_mask =
               IF @ = None THEN None
               ELSE Some([sb.allowed_token_ids_mask[1] EXCEPT
                            ![to_idx] = sb.allowed_token_ids_mask[1][from_idx],
                            ![from_idx] = [t \in 0..(vocab_size - 1) |-> FALSE]])]

_move_request(sb, from_idx, to_idx) ==
    LET req_id == sb._req_ids[from_idx + 1]
        num_tokens == sb.num_tokens[from_idx]
        mv(a) == [a EXCEPT ![to_idx] = a[from_idx]]
        sb1 == [sb EXCEPT
                  !._req_ids = [@ EXCEPT ![to_idx + 1] = req_id, ![from_idx + 1] = NoReq],
                  !.req_output_token_ids =
                      [@ EXCEPT ![to_idx + 1] = sb.req_output_token_ids[from_idx + 1],
                                ![from_idx + 1] = NoReq],
                  !.req_id_to_index = DictSet(@, req_id, to_idx),
                  !.token_ids[to_idx] =
                      [p \in Positions |->
                         IF p < num_tokens THEN sb.token_ids[from_idx][p] ELSE @[p]],
                  !.num_tokens = mv(@),
                  !.num_tokens_no_spec = mv(@),
                  !.num_prompt_tokens = mv(@),
                  !.num_computed_tokens = mv(@),
                  !.temperature = mv(@),
                  !.top_p = mv(@),
                  !.top_k = mv(@),
                  !.frequency_penalties = mv(@),
                  !.presence_penalties = mv(@),
                  !.repetition_penalties = mv(@),
                  !.min_p = mv(@),
                  !.page_table = page_table_move_row(@, from_idx, to_idx)]
    IN  _move_sparse_data(sb1, from_idx, to_idx)

RECURSIVE condense_skip(_, _, _)
condense_skip(last_req_index, empty_req_indices, empty_index) ==
    IF last_req_index \in SeqToSet(empty_req_indices) /\ last_req_index > empty_index
    THEN condense_skip(last_req_index - 1, empty_req_indices, empty_index)
    ELSE last_req_index

\* The for loop of condense; k counts the holes already visited, lowest first.
RECURSIVE condense_loop(_, _, _, _)
condense_loop(sb, empty_req_indices, k, last_req_index) ==
    IF k = Len(empty_req_indices) THEN sb
    ELSE
    LET empty_index == empty_req_indices[Len(empty_req_indices) - k]
        last == condense_skip(last_req_index, empty_req_indices, empty_index)
    IN  IF empty_index >= last
        THEN condense_loop(sb, empty_req_indices, k + 1, last)
        ELSE condense_loop(_move_request(sb, last, empty_index),
                           empty_req_indices, k + 1, last - 1)

\* condense that trims the lists without moving any request into a hole.
condense_without_moves(sb, empty_req_indices) ==
    LET n == Min(num_reqs(sb), Len(sb._req_ids))
    IN  [sb EXCEPT
           !._req_ids = SubSeq(@, 1, n),
           !.req_output_token_ids = SubSeq(@, 1, n)]

\* condense that fills the holes but leaves the lists at their old length.
condense_without_trim(sb, empty_req_indices) ==
    IF num_reqs(sb) = 0
    THEN [sb EXCEPT !._req_ids = <<>>, !.req_output_token_ids = <<>>]
    ELSE condense_loop(sb, empty_req_indices, 0,
                       num_reqs(sb) + Len(empty_req_indices) - 1)

condense(sb, empty_req_indices) ==
    IF num_reqs(sb) = 0
    THEN [sb EXCEPT !._req_ids = <<>>, !.req_output_token_ids = <<>>]
    ELSE
    LET sb1 == condense_loop(sb, empty_req_indices, 0,
                             num_reqs(sb) + Len(empty_req_indices) - 1)
        n == Min(num_reqs(sb1), Len(sb1._req_ids))
    IN  [sb1 EXCEPT
           !._req_ids = SubSeq(@, 1, n),
           !.req_output_token_ids = SubSeq(@, 1, n)]


\* ------------------------------------------------------------------------
\* Padding helpers of the runner
\* ------------------------------------------------------------------------
min_token_size == 16

RECURSIVE paddings_double(_, _, _)
paddings_double(paddings, num, limit) ==
    IF num <= limit THEN paddings_double(Append(paddings, num), num * 2, limit)
    ELSE [paddings |-> paddings, num |-> num]

RECURSIVE paddings_gap(_, _, _, _)
paddings_gap(paddings, num, max_token_size, padding_gap) ==
    IF num < max_token_size
    THEN paddings_gap(Append(paddings, num + padding_gap), num + padding_gap,
                      max_token_size, padding_gap)
    ELSE paddings

_get_token_paddings(min_size, max_token_size, padding_gap) ==
    IF padding_gap = 0
    THEN paddings_double(<<>>, min_size, max_token_size).paddings
    ELSE LET d == paddings_double(<<>>, min_size, padding_gap)
         IN  paddings_gap(d.paddings, d.num \div 2, max_token_size, padding_gap)

num_tokens_paddings == _get_token_paddings(min_token_size, max_model_len, 0)

\* bisect.bisect_right: the insertion point after the entries equal to x
bisect_right(a, x) == Cardinality({i \in DOMAIN a : a[i] <= x})

\* bisect.bisect_left on a sorted list: the number of entries below x
bisect_left(a, x) == Cardinality({i \in DOMAIN a : a[i] < x})

\* None when the assertion "index < len(paddings)" fails.
_get_padded_token_len(paddings, x) ==
    LET index == bisect_left(paddings, x)
    IN  IF index < Len(paddings) THEN Some(paddings[index + 1]) ELSE None

\* the padded slice count without the cap at num_tokens
_get_padded_num_kv_cache_update_slices_uncapped(num_tokens, max_reqs, pg_size, num_slices_per_kv_cache_update_page) ==
    ((2 * max_reqs + num_tokens \div pg_size
         + num_slices_per_kv_cache_update_page - 1)
        \div num_slices_per_kv_cache_update_page)
    * num_slices_per_kv_cache_update_page

\* the padded slice count that allows one slice per page of tokens only
_get_padded_num_kv_cache_update_slices_per_page(num_tokens, max_reqs, pg_size, num_slices_per_kv_cache_update_page) ==
    ((Min(num_tokens \div pg_size, num_tokens)
         + num_slices_per_kv_cache_update_page - 1)
        \div num_slices_per_kv_cache_update_page)
    * num_slices_per_kv_cache_update_page

\* max_reqs and pg_size are the parameters max_num_reqs and page_size
_get_padded_num_kv_cache_update_slices(num_tokens, max_reqs, pg_size, num_slices_per_kv_cache_update_page) ==
    ((Min(2 * max_reqs + num_tokens \div pg_size, num_tokens)
         + num_slices_per_kv_cache_update_page - 1)
        \div num_slices_per_kv_cache_update_page)
    * num_slices_per_kv_cache_update_page

num_reqs_max_model_len == Min(MetadataMaxNumSeqs, max_num_reqs)

\* ------------------------------------------------------------------------
\* State
\* ------------------------------------------------------------------------
VARIABLES
    sequence_buffer,            \* eSurgeRunner.sequence_buffer
    requests,                   \* eSurgeRunner.requests: req_id -> CachedRequestState
    scheduler_output,           \* the SchedulerOutput of the step in progress / last step
    pc,                         \* position of execute_model
    start_index,                \* local of the sub-batch loop
    combined_selected_tokens,   \* local of the sub-batch loop
    forward_calls,              \* the execute_forward calls of this step, in order
    model_runner_output,        \* what the last execute_model returned
    error,                      \* the exception the last call raised, if any
    sched,                      \* the scheduler's own table of requests
    removed_req_indices,        \* holes left open by remove_request (buffer-level use)
    misuse,                     \* add_request(None) was called with a hole open
    last_call,                  \* the last SequenceBuffer method called directly
    pad_call,                   \* the last padding helper called directly
    sample_call,                \* the last sampler call made directly
    multifuture,                \* an AsyncMultifuture, its event loop and its users
    metrics_recorder,           \* a MetricsRecorder and the threads recording to it
    result_call                 \* the process_result_tokens calls made for one slot

vars == <<sequence_buffer, requests, scheduler_output, pc, start_index,
          combined_selected_tokens, forward_calls, model_runner_output, error,
          sched, removed_req_indices, misuse, last_call, pad_call, sample_call,
          multifuture, metrics_recorder, result_call>>

IdOrder == <<"A", "B", "C">>
Sorted(S) == SelectSeq(IdOrder, LAMBDA r : r \in S)

RECURSIVE SortDesc(_)
SortDesc(S) ==
    IF S = {} THEN <<>>
    ELSE <<SetMax(S)>> \o SortDesc(S \ {SetMax(S)})

CeilDiv(a, b) == (a + b - 1) \div b

\* lst[-n:] for n > 0
LastN(lst, n) == IF Len(lst) <= n THEN lst ELSE SubSeq(lst, Len(lst) - n + 1, Len(lst))

RECURSIVE SortAsc(_)
SortAsc(S) ==
    IF S = {} THEN <<>>
    ELSE <<SetMin(S)>> \o SortAsc(S \ {SetMin(S)})

\* ------------------------------------------------------------------------
\* The scheduler (external collaborator): it owns the page pool, counts the
\* computed tokens of each request and emits one SchedulerOutput per step.
\* ------------------------------------------------------------------------
SchedInit ==
    [r \in ReqIds |->
        [status |-> "none", num_computed_tokens |-> 0, page_ids |-> <<>>, bank |-> 0]]

NoSchedulerOutput ==
    [finished_req_ids |-> {},
     scheduled_new_reqs |-> <<>>,
     scheduled_cached_reqs |-> <<>>,
     num_scheduled_tokens |-> EmptyDict,
     total_num_scheduled_tokens |-> 0]

NumTokensOf(r) == RequestNumTokens(requests[r])

\* The scheduler stops a request after OutputCap(r) generated tokens: A may
\* generate MaxOutputLen tokens, B two and C one.
OutputCap(r) == IF r = "A" THEN MaxOutputLen ELSE IF r = "B" THEN 2 ELSE 1

\* Token counts the scheduler gives a request with `remaining` tokens left:
\* all of them, or one chunk of ChunkSize.
Chunks(remaining) ==
    {remaining} \cup (IF ChunkSize < remaining THEN {ChunkSize} ELSE {})

\* What the scheduler may decide for r in one step: leave it out (skip),
\* admit it (new), continue it (cont), preempt and reschedule it from token 0
\* with fresh pages (resume), or report it finished. A request that has
\* generated OutputCap(r) tokens is reported finished with the next step, and
\* a finished id is not used again.
Decisions(r) ==
    LET st == sched[r]
        idle == [op |-> "skip", n |-> 0]
    IN  CASE st.status = "none" ->
               {idle} \cup {[op |-> "new", n |-> s] : s \in Chunks(Len(PromptOf(r)))}
          [] st.status = "running" ->
               {[op |-> "finish", n |-> 0]} \cup
               (IF Len(requests[r].output_token_ids) < OutputCap(r)
                THEN {idle}
                     \cup {[op |-> "cont", n |-> s] :
                              s \in Chunks(NumTokensOf(r) - st.num_computed_tokens)}
                     \cup {[op |-> "resume", n |-> s] : s \in Chunks(NumTokensOf(r))}
                ELSE {})
          [] OTHER -> {idle}

\* The page pool is partitioned: each request draws from two banks of its
\* own, and a request resumed while it still holds pages gets the other bank.
IdIndex(r) == CHOOSE i \in DOMAIN IdOrder : IdOrder[i] = r
PageOf(r, bank, j) == ((IdIndex(r) - 1) * 2 + bank) * PagesPerBank + j

BankAfter(dec, r) ==
    CASE dec[r].op = "resume" /\ sched[r].status = "running" -> 1 - sched[r].bank
      [] dec[r].op \in {"new", "resume"} -> 0
      [] OTHER -> sched[r].bank

PagesNeeded(dec, r) ==
    CASE dec[r].op = "cont" -> CeilDiv(sched[r].num_computed_tokens + dec[r].n, page_size)
      [] dec[r].op \in {"new", "resume"} -> CeilDiv(dec[r].n, page_size)
      [] OTHER -> 0

\* The pages handed to r with this step (new_page_ids / page_ids).
NewPagesOf(dec, r) ==
    LET first == IF dec[r].op = "cont" THEN Len(sched[r].page_ids) + 1 ELSE 1
        count == IF PagesNeeded(dec, r) >= first THEN PagesNeeded(dec, r) - first + 1 ELSE 0
    IN  [j \in 1..count |-> PageOf(r, BankAfter(dec, r), first + j - 1)]

RECURSIVE SetSum(_, _)
SetSum(f, S) ==
    IF S = {} THEN 0
    ELSE LET x == CHOOSE y \in S : TRUE IN f[x] + SetSum(f, S \ {x})

MakeSchedulerOutput(dec) ==
    LET new_ids == Sorted({r \in ReqIds : dec[r].op = "new"})
        cached_ids == Sorted({r \in ReqIds : dec[r].op \in {"cont", "resume"}})
        scheduled == {r \in ReqIds : dec[r].op \in {"new", "cont", "resume"}}
    IN  [finished_req_ids |-> {r \in ReqIds : dec[r].op = "finish"},
         scheduled_new_reqs |->
             [i \in DOMAIN new_ids |->
                [req_id |-> new_ids[i],
                 prompt_token_ids |-> PromptOf(new_ids[i]),
                 sampling_params |-> SamplingParamsOf(new_ids[i]),
                 page_ids |-> NewPagesOf(dec, new_ids[i]),
                 num_computed_tokens |-> 0]],
         scheduled_cached_reqs |->
             [i \in DOMAIN cached_ids |->
                [req_id |-> cached_ids[i],
                 num_computed_tokens |->
                     IF dec[cached_ids[i]].op = "cont"
                     THEN sched[cached_ids[i]].num_computed_tokens ELSE 0,
                 new_page_ids |-> NewPagesOf(dec, cached_ids[i]),
                 resumed_from_preemption |-> dec[cached_ids[i]].op = "resume"]],
         num_scheduled_tokens |-> [r \in scheduled |-> dec[r].n],
         total_num_scheduled_tokens |-> SetSum([r \in ReqIds |-> dec[r].n], scheduled)]

SchedAfter(dec) ==
    [r \in ReqIds |->
       CASE dec[r].op = "finish" ->
               [status |-> "done", num_computed_tokens |-> 0, page_ids |-> <<>>, bank |-> 0]
         [] dec[r].op \in {"new", "resume"} ->
               [status |-> "running", num_computed_tokens |-> dec[r].n,
                page_ids |-> NewPagesOf(dec, r), bank |-> BankAfter(dec, r)]
         [] dec[r].op = "cont" ->
               [status |-> "running",
                num_computed_tokens |-> sched[r].num_computed_tokens + dec[r].n,
                page_ids |-> sched[r].page_ids \o NewPagesOf(dec, r),
                bank |-> sched[r].bank]
         [] OTHER -> sched[r]]

\* A step the scheduler may emit: at most max_num_seqs requests, within the
\* token budget of the largest padding bucket, each within its page banks.
WellFormedStep(dec) ==
    /\ Cardinality({r \in ReqIds : dec[r].op \in {"new", "cont", "resume"}}) <= max_num_reqs
    /\ \A r \in ReqIds : PagesNeeded(dec, r) <= PagesPerBank
    /\ num_tokens_paddings # <<>>
    /\ SetSum([r \in ReqIds |-> dec[r].n], ReqIds)
          <= num_tokens_paddings[Len(num_tokens_paddings)]

\* ------------------------------------------------------------------------
\* eSurgeRunner._update_states
\* ------------------------------------------------------------------------
RECURSIVE remove_requests(_, _)
remove_requests(sb, req_ids) ==
    IF req_ids = {} THEN sb
    ELSE LET req_id == CHOOSE r \in req_ids : TRUE
         IN  remove_requests(remove_request(sb, req_id), req_ids \ {req_id})

new_request_state(new_req_data) ==
    [req_id |-> new_req_data.req_id,
     prompt_token_ids |-> new_req_data.prompt_token_ids,
     sampling_params |-> new_req_data.sampling_params,
     generator_seed |-> None,
     page_ids |-> new_req_data.page_ids,
     num_computed_tokens |-> new_req_data.num_computed_tokens,
     output_token_ids |-> <<>>]

RECURSIVE add_new_reqs(_, _, _)
add_new_reqs(reqs, scheduled_new_reqs, i) ==
    IF i > Len(scheduled_new_reqs) THEN reqs
    ELSE add_new_reqs(DictSet(reqs, scheduled_new_reqs[i].req_id,
                              new_request_state(scheduled_new_reqs[i])),
                      scheduled_new_reqs, i + 1)

\* update_cached_req that records the scheduler's count in the request state
\* only, not in the buffer row of a batched request.
update_cached_req_skips_buffer(st, data) ==
    LET req_id == data.req_id
        req_state1 ==
            [st.requests[req_id] EXCEPT
               !.num_computed_tokens = data.num_computed_tokens,
               !.page_ids = IF ~data.resumed_from_preemption
                            THEN @ \o data.new_page_ids
                            ELSE data.new_page_ids]
        reqs1 == [st.requests EXCEPT ![req_id] = req_state1]
    IN  IF req_id \notin DOMAIN st.sequence_buffer.req_id_to_index
        THEN [st EXCEPT !.requests = reqs1,
                        !.req_ids_to_add = Append(@, req_id)]
        ELSE [st EXCEPT
                !.requests = reqs1,
                !.sequence_buffer.page_table =
                    page_table_append_row(
                        @, data.new_page_ids,
                        st.sequence_buffer.req_id_to_index[req_id])]

\* One iteration of the loop over scheduled_cached_reqs; st carries the
\* requests map, the buffer and req_ids_to_add.
update_cached_req(st, data) ==
    LET req_id == data.req_id
        req_state == st.requests[req_id]
        req_state1 ==
            [req_state EXCEPT
               !.num_computed_tokens = data.num_computed_tokens,
               !.page_ids = IF ~data.resumed_from_preemption
                            THEN @ \o data.new_page_ids
                            ELSE data.new_page_ids]
        reqs1 == [st.requests EXCEPT ![req_id] = req_state1]
    IN  IF req_id \notin DOMAIN st.requests
        THEN \* self.requests[req_id] (line 378)
             [st EXCEPT !.error = Some("KeyError")]
        ELSE IF req_id \notin DOMAIN st.sequence_buffer.req_id_to_index
        THEN [st EXCEPT !.requests = reqs1,
                        !.req_ids_to_add = Append(@, req_id)]
        ELSE LET req_index == st.sequence_buffer.req_id_to_index[req_id]
             IN  [st EXCEPT
                    !.requests = reqs1,
                    !.sequence_buffer.num_computed_tokens[req_index] =
                        data.num_computed_tokens,
                    !.sequence_buffer.page_table =
                        page_table_append_row(@, data.new_page_ids, req_index)]

RECURSIVE update_cached_reqs(_, _, _)
update_cached_reqs(st, req_data, i) ==
    IF i > Len(req_data) THEN st
    ELSE LET st1 == update_cached_req(st, req_data[i])
         IN  IF st1.error # None THEN st1
             ELSE update_cached_reqs(st1, req_data, i + 1)

\* The loop over req_ids_to_add: each takes the lowest removed slot, or is
\* appended when none is left.
RECURSIVE add_requests(_, _, _, _)
add_requests(st, i, removed, reqs) ==
    IF i > Len(st.req_ids_to_add)
    THEN [sequence_buffer |-> st.sequence_buffer, removed |-> removed]
    ELSE LET req_state == reqs[st.req_ids_to_add[i]]
             req_index == IF removed # {} THEN Some(SetMin(removed)) ELSE None
         IN  add_requests(
                 [st EXCEPT !.sequence_buffer = add_request(@, req_state, req_index)],
                 i + 1,
                 IF removed # {} THEN removed \ {SetMin(removed)} ELSE removed,
                 reqs)

\* a finished id the runner does not hold is refused
remove_finished_error_unknown_id(reqs, sb, finished_req_ids) ==
    IF finished_req_ids \subseteq DOMAIN reqs THEN None ELSE Some("KeyError")

\* What the two loops over finished_req_ids (lines 342-349) raise: nothing.
\* self.requests.pop(req_id, None) has a default, and a None from
\* remove_request is skipped.
remove_finished_error(reqs, sb, finished_req_ids) == None

\* _update_states without the pop of the finished requests (line 343)
_update_states_keeps_finished(reqs, sb, so) ==
    LET reqs1 == reqs
        finished_in_buffer == so.finished_req_ids \cap DOMAIN sb.req_id_to_index
        sb1 == remove_requests(sb, finished_in_buffer)
        unscheduled_req_ids ==
            (DOMAIN sb1.req_id_to_index) \ (DOMAIN so.num_scheduled_tokens)
        sb2 == remove_requests(sb1, unscheduled_req_ids)
        removed == {sb.req_id_to_index[r] :
                       r \in finished_in_buffer \cup unscheduled_req_ids}
        reqs2 == add_new_reqs(reqs1, so.scheduled_new_reqs, 1)
        st == update_cached_reqs(
                  [requests |-> reqs2, sequence_buffer |-> sb2, error |-> None,
                   req_ids_to_add |->
                       [i \in DOMAIN so.scheduled_new_reqs |->
                          so.scheduled_new_reqs[i].req_id]],
                  so.scheduled_cached_reqs, 1)
        added == add_requests(st, 1, removed, st.requests)
        sb3 == IF added.removed # {}
               THEN condense(added.sequence_buffer, SortDesc(added.removed))
               ELSE added.sequence_buffer
    IN  IF remove_finished_error(reqs, sb, so.finished_req_ids) # None
        THEN [requests |-> reqs, sequence_buffer |-> sb,
              error |-> remove_finished_error(reqs, sb, so.finished_req_ids)]
        ELSE IF st.error # None
        THEN [requests |-> st.requests, sequence_buffer |-> st.sequence_buffer,
              error |-> st.error]
        ELSE [requests |-> st.requests, sequence_buffer |-> sb3, error |-> None]

_update_states(reqs, sb, so) ==
    LET reqs1 == [r \in (DOMAIN reqs) \ so.finished_req_ids |-> reqs[r]]
        finished_in_buffer == so.finished_req_ids \cap DOMAIN sb.req_id_to_index
        sb1 == remove_requests(sb, finished_in_buffer)
        unscheduled_req_ids ==
            (DOMAIN sb1.req_id_to_index) \ (DOMAIN so.num_scheduled_tokens)
        sb2 == remove_requests(sb1, unscheduled_req_ids)
        removed == {sb.req_id_to_index[r] :
                       r \in finished_in_buffer \cup unscheduled_req_ids}
        reqs2 == add_new_reqs(reqs1, so.scheduled_new_reqs, 1)
        st == update_cached_reqs(
                  [requests |-> reqs2, sequence_buffer |-> sb2, error |-> None,
                   req_ids_to_add |->
                       [i \in DOMAIN so.scheduled_new_reqs |->
                          so.scheduled_new_reqs[i].req_id]],
                  so.scheduled_cached_reqs, 1)
        added == add_requests(st, 1, removed, st.requests)
        sb3 == IF added.removed # {}
               THEN condense(added.sequence_buffer, SortDesc(added.removed))
               ELSE added.sequence_buffer
    IN  IF remove_finished_error(reqs, sb, so.finished_req_ids) # None
        THEN [requests |-> reqs, sequence_buffer |-> sb,
              error |-> remove_finished_error(reqs, sb, so.finished_req_ids)]
        ELSE IF st.error # None
        THEN [requests |-> st.requests, sequence_buffer |-> st.sequence_buffer,
              error |-> st.error]
        ELSE [requests |-> st.requests, sequence_buffer |-> sb3, error |-> None]

\* ------------------------------------------------------------------------
\* eSurgeRunner._prepare_inputs (the part that sizes a sub-batch)
\* ------------------------------------------------------------------------
RECURSIVE bit_length(_)
bit_length(x) == IF x = 0 THEN 0 ELSE 1 + bit_length(x \div 2)

_get_padded_num_reqs_with_upper_limit(x, upper_limit) ==
    LET res == IF x <= 8 THEN 8 ELSE 2 ^ bit_length(x - 1)
    IN  Min(res, upper_limit)

RECURSIVE SeqSum(_)
SeqSum(s) == IF s = <<>> THEN 0 ELSE Head(s) + SeqSum(Tail(s))

\* The page-table entries _get_slot_mapping_metadata reads (lines 294-307):
\* for the j-th request of the sub-batch, row j - 1 of the page table at the
\* logical pages that num_computed_tokens[j - 1] and the request's scheduled
\* tokens span.
slot_mapping_page_lookups(sb, n, num_scheduled_tokens_per_req) ==
    [j \in 1..n |->
        LET slices_start == sb.num_computed_tokens[j - 1]
            slices_end == slices_start + num_scheduled_tokens_per_req[j]
            local_page_start_idx == slices_start \div page_size
            local_page_end_idx == (slices_end - 1) \div page_size
        IN  {[req_idx |-> j - 1, local_page |-> l] :
                l \in local_page_start_idx..local_page_end_idx}]

RECURSIVE Concat(_)
Concat(ss) == IF ss = <<>> THEN <<>> ELSE Head(ss) \o Concat(Tail(ss))

\* the slot mapping with every slice starting at the head of its page
_get_slot_mapping_metadata_page_aligned(sb, n, num_scheduled_tokens_per_req) ==
    LET slices_end(j) == sb.num_computed_tokens[j - 1] + num_scheduled_tokens_per_req[j]
        first(j) == sb.num_computed_tokens[j - 1] \div page_size
        page_lens(j) == (slices_end(j) - 1) \div page_size - first(j) + 1
        flat == Concat([j \in 1..n |->
                   [k \in 1..page_lens(j) |->
                      [page_number |-> page_table_get(sb.page_table, j - 1, first(j) + k - 1),
                       slice_start |-> 0,
                       slice_end |-> IF k = page_lens(j)
                                     THEN ((slices_end(j) - 1) % page_size) + 1
                                     ELSE page_size]]])
        slice_lens == [m \in DOMAIN flat |-> flat[m].slice_end - flat[m].slice_start]
    IN  [m \in DOMAIN flat |->
            [kv_cache_start_index |-> flat[m].slice_start + flat[m].page_number * page_size,
             new_kv_start_index |-> SeqSum(SubSeq(slice_lens, 1, m - 1)),
             slice_len |-> slice_lens[m]]]

\* _get_slot_mapping_metadata: one triple (kv_cache_start_index,
\* new_kv_start_index, slice_len) per page touched.  The j-th request of the
\* sub-batch is taken from row j - 1 of num_computed_tokens and of the page
\* table (lines 294, 300).
_get_slot_mapping_metadata(sb, n, num_scheduled_tokens_per_req) ==
    LET slices_start(j) == sb.num_computed_tokens[j - 1]
        slices_end(j) == slices_start(j) + num_scheduled_tokens_per_req[j]
        local_page_start_idx(j) == slices_start(j) \div page_size
        local_page_end_idx(j) == (slices_end(j) - 1) \div page_size
        page_lens(j) == local_page_end_idx(j) - local_page_start_idx(j) + 1
        \* slot_mapping_slices with its page number, request after request
        flat == Concat([j \in 1..n |->
                   [k \in 1..page_lens(j) |->
                      [page_number |->
                           page_table_get(sb.page_table, j - 1,
                                          local_page_start_idx(j) + k - 1),
                       slice_start |-> IF k = 1 THEN slices_start(j) % page_size ELSE 0,
                       slice_end |-> IF k = page_lens(j)
                                     THEN ((slices_end(j) - 1) % page_size) + 1
                                     ELSE page_size]]])
        slice_lens == [m \in DOMAIN flat |-> flat[m].slice_end - flat[m].slice_start]
    IN  [m \in DOMAIN flat |->
            [kv_cache_start_index |-> flat[m].slice_start + flat[m].page_number * page_size,
             new_kv_start_index |-> SeqSum(SubSeq(slice_lens, 1, m - 1)),
             slice_len |-> slice_lens[m]]]

\* np.repeat(arange_np[:num_reqs], num_scheduled_tokens_per_req) (line 449)
req_indices_of(num_scheduled_tokens_per_req) ==
    Concat([j \in 1..Len(num_scheduled_tokens_per_req) |->
              [a \in 1..num_scheduled_tokens_per_req[j] |-> j - 1]])

\* np.concatenate([arange_np[:n] for n in num_scheduled_tokens_per_req]) (line 450)
arange_of(num_scheduled_tokens_per_req) ==
    Concat([j \in 1..Len(num_scheduled_tokens_per_req) |->
              [a \in 1..num_scheduled_tokens_per_req[j] |-> a - 1]])

\* positions_np (lines 452-457)
positions_of(sb, num_scheduled_tokens_per_req) ==
    LET req_indices == req_indices_of(num_scheduled_tokens_per_req)
        arange == arange_of(num_scheduled_tokens_per_req)
    IN  [k \in DOMAIN req_indices |->
            sb.num_computed_tokens[req_indices[k]] + arange[k]]

\* np.take(token_ids.flatten(), index): the row-major read of one entry.
\* np.take raises IndexError for an index past the array, written -1 here.
flat_take(token_ids, index) ==
    IF index < max_num_reqs * max_model_len
    THEN token_ids[index \div max_model_len][index % max_model_len]
    ELSE -1

\* input_ids (lines 459-460)
input_ids_of(sb, num_scheduled_tokens_per_req) ==
    LET req_indices == req_indices_of(num_scheduled_tokens_per_req)
        positions_np == positions_of(sb, num_scheduled_tokens_per_req)
    IN  [k \in DOMAIN req_indices |->
            flat_take(sb.token_ids, positions_np[k] + req_indices[k] * max_model_len)]

\* pages_tables[:num_reqs] = page_table[0].get_array()[:num_reqs] (line 483)
pages_tables_of(sb, n) == [j \in 1..n |-> sb.page_table[j - 1]]

\* positions_np and arange_np hold max_num_tokens entries
max_num_tokens == num_tokens_paddings[Len(num_tokens_paddings)]

\* a sub-batch of any size is let through to the forward pass
_prepare_inputs_never_fails(total_num_scheduled_tokens) == None

\* What _prepare_inputs raises for a sub-batch of this many tokens.  np.add
\* (line 452) writes total_num_scheduled_tokens positions into
\* positions_np[:total_num_scheduled_tokens], which is shorter than that when
\* the total exceeds max_num_tokens; the assert of _get_padded_token_len
\* (line 462) comes after it.
_prepare_inputs_error(total_num_scheduled_tokens) ==
    IF total_num_scheduled_tokens > max_num_tokens THEN Some("ValueError")
    ELSE IF _get_padded_token_len(num_tokens_paddings, total_num_scheduled_tokens) = None
    THEN Some("AssertionError")
    ELSE None

\* _prepare_inputs that cuts the sub-batch but reports the end of the buffer
\* as its end_index.
_prepare_inputs_end_at_num_reqs(sb, so, start) ==
    LET n == num_reqs(sb)
        all_scheduled ==
            [k \in 1..(n - start) |-> so.num_scheduled_tokens[sb._req_ids[start + k]]]
        per_req ==
            IF Len(all_scheduled) > num_reqs_max_model_len
            THEN SubSeq(all_scheduled, 1, num_reqs_max_model_len)
            ELSE all_scheduled
    IN  [num_scheduled_tokens_per_req |-> per_req,
         total_num_scheduled_tokens |-> SeqSum(per_req),
         num_reqs |-> Len(per_req),
         end_index |-> n,
         req_indices |-> req_indices_of(per_req),
         positions |-> positions_of(sb, per_req),
         input_ids |-> input_ids_of(sb, per_req),
         pages_tables |-> pages_tables_of(sb, Len(per_req)),
         seq_lens |->
             [j \in 1..Len(per_req) |-> sb.num_computed_tokens[j - 1] + per_req[j]],
         error |-> _prepare_inputs_error(SeqSum(per_req)),
         page_lookups |-> slot_mapping_page_lookups(sb, Len(per_req), per_req),
         slot_mapping_metadata |->
             _get_slot_mapping_metadata(sb, Len(per_req), per_req),
         padded_total_num_scheduled_tokens |->
             _get_padded_token_len(num_tokens_paddings, SeqSum(per_req)),
         padded_num_reqs |->
             _get_padded_num_reqs_with_upper_limit(Len(per_req), max_num_reqs)]

_prepare_inputs(sb, so, start) ==
    LET n == num_reqs(sb)
        all_scheduled ==
            [k \in 1..(n - start) |-> so.num_scheduled_tokens[sb._req_ids[start + k]]]
        cut == Len(all_scheduled) > num_reqs_max_model_len
        num_scheduled_tokens_per_req ==
            IF cut THEN SubSeq(all_scheduled, 1, num_reqs_max_model_len)
            ELSE all_scheduled
        end_index == IF cut THEN start + num_reqs_max_model_len ELSE n
        total_num_scheduled_tokens == SeqSum(num_scheduled_tokens_per_req)
    IN  [num_scheduled_tokens_per_req |-> num_scheduled_tokens_per_req,
         total_num_scheduled_tokens |-> total_num_scheduled_tokens,
         num_reqs |-> Len(num_scheduled_tokens_per_req),
         end_index |-> end_index,
         req_indices |-> req_indices_of(num_scheduled_tokens_per_req),
         positions |-> positions_of(sb, num_scheduled_tokens_per_req),
         input_ids |-> input_ids_of(sb, num_scheduled_tokens_per_req),
         pages_tables |->
             pages_tables_of(sb, Len(num_scheduled_tokens_per_req)),
         seq_lens |->
             [j \in 1..Len(num_scheduled_tokens_per_req) |->
                sb.num_computed_tokens[j - 1] + num_scheduled_tokens_per_req[j]],
         error |-> _prepare_inputs_error(total_num_scheduled_tokens),
         page_lookups |->
             slot_mapping_page_lookups(sb, Len(num_scheduled_tokens_per_req),
                                       num_scheduled_tokens_per_req),
         slot_mapping_metadata |->
             _get_slot_mapping_metadata(sb, Len(num_scheduled_tokens_per_req),
                                        num_scheduled_tokens_per_req),
         padded_total_num_scheduled_tokens |->
             _get_padded_token_len(num_tokens_paddings, total_num_scheduled_tokens),
         padded_num_reqs |->
             _get_padded_num_reqs_with_upper_limit(Len(num_scheduled_tokens_per_req),
                                                   max_num_reqs)]

\* ------------------------------------------------------------------------
\* eSurgeRunner.execute_model
\* ------------------------------------------------------------------------
EmptyModelRunnerOutput ==
    [req_ids |-> <<>>, req_id_to_index |-> EmptyDict, sampled_token_ids |-> <<>>]

\* seq_len of the request in slot i this step
seq_len_of(reqs, sb, so, i) ==
    LET req_id == sb._req_ids[i + 1]
    IN  reqs[req_id].num_computed_tokens + so.num_scheduled_tokens[req_id]

\* the test of line 587 taken as always true
prompt_always_done(seq_len, num_tokens) == TRUE

\* the test of line 587: the prompt is fully consumed by this step
prompt_done(seq_len, num_tokens) == seq_len >= num_tokens

discard_sampled_tokens_req_indices(reqs, sb, so) ==
    {i \in 0..(num_reqs(sb) - 1) :
        ~prompt_done(seq_len_of(reqs, sb, so, i),
                     RequestNumTokens(reqs[sb._req_ids[i + 1]]))}

\* line 590 reads sequence_buffer.generators, which SequenceBuffer never sets
has_generators(sb) == "generators" \in DOMAIN sb

valid_sampled_token_ids(reqs, sb, so, selected_token_ids) ==
    [k \in 1..num_reqs(sb) |->
        IF (k - 1) \in discard_sampled_tokens_req_indices(reqs, sb, so)
        THEN <<>> ELSE <<selected_token_ids[k]>>]

\* the commit loop without the append to the request's output_token_ids
RECURSIVE commit_tokens_without_append(_, _, _, _, _)
commit_tokens_without_append(st, so, valid, discard, i) ==
    IF i >= num_reqs(st.sequence_buffer) THEN st
    ELSE IF i \in discard THEN commit_tokens_without_append(st, so, valid, discard, i + 1)
    ELSE LET seq_len == seq_len_of(st.requests, st.sequence_buffer, so, i)
         IN  commit_tokens_without_append(
                 [st EXCEPT
                    !.sequence_buffer.token_ids[i][seq_len] = valid[i + 1][1],
                    !.sequence_buffer.num_tokens[i] = @ + 1],
                 so, valid, discard, i + 1)

\* the loop of lines 604-608 over request_seq_lens, slot by slot
RECURSIVE commit_tokens(_, _, _, _, _)
commit_tokens(st, so, valid, discard, i) ==
    IF i >= num_reqs(st.sequence_buffer) THEN st
    ELSE IF i \in discard THEN commit_tokens(st, so, valid, discard, i + 1)
    ELSE LET req_id == st.sequence_buffer._req_ids[i + 1]
             seq_len == seq_len_of(st.requests, st.sequence_buffer, so, i)
             token_id == valid[i + 1][1]
         IN  commit_tokens(
                 [st EXCEPT
                    !.sequence_buffer.token_ids[i][seq_len] = token_id,
                    !.requests[req_id].output_token_ids = Append(@, token_id),
                    !.sequence_buffer.num_tokens[i] = @ + 1],
                 so, valid, discard, i + 1)

\* the test of line 532 never taken
never_empty_step(so) == FALSE

\* line 532: `if not scheduler_output.total_num_scheduled_tokens`
is_empty_step(so) == so.total_num_scheduled_tokens = 0

NoCall == [op |-> "none", slots |-> {}]
NoPadCall == [op |-> "none"]

loopVars == <<start_index, combined_selected_tokens, forward_calls>>
NoSampleCall == [op |-> "none"]
NoMultifuture == [op |-> "none"]
NoMetricsRecorder == [op |-> "none"]
NoResultCall == [op |-> "none"]
utilVars == <<multifuture, metrics_recorder, result_call>>
bufVars == <<removed_req_indices, misuse, last_call, pad_call, sample_call, utilVars>>

StepChoices ==
    {dec \in [ReqIds -> UNION {Decisions(r) : r \in ReqIds}] :
        /\ \A r \in ReqIds : dec[r] \in Decisions(r)
        /\ WellFormedStep(dec)}

\* execute_model up to the sub-batch loop, called with the SchedulerOutput so
\* by a scheduler whose table becomes sched1: _update_states, then the early
\* return of an empty step.
execute_model_entry(so, sched1) ==
    /\ LET u == _update_states(requests, sequence_buffer, so)
       IN  /\ scheduler_output' = so
           /\ sched' = sched1
           /\ requests' = u.requests
           /\ sequence_buffer' = u.sequence_buffer
           /\ error' = u.error
           /\ IF u.error # None
              THEN /\ pc' = "raised"
                   /\ model_runner_output' = None
              ELSE IF is_empty_step(so)
              THEN /\ pc' = "returned"
                   /\ model_runner_output' = Some(EmptyModelRunnerOutput)
              ELSE /\ pc' = "loop"
                   /\ model_runner_output' = None
    /\ start_index' = 0
    /\ combined_selected_tokens' = <<>>
    /\ forward_calls' = <<>>
    /\ UNCHANGED bufVars

\* A step of a scheduler that keeps to the protocol.
ExecuteModel ==
    /\ pc = "idle"
    /\ \E dec \in StepChoices :
          LET so == MakeSchedulerOutput(dec)
          IN  execute_model_entry(so, SchedAfter(dec))

\* An iteration that writes what it sampled into the buffer at once instead
\* of leaving it to the commit after the loop.
ForwardSubBatch_commits_in_loop ==
    /\ pc = "loop"
    /\ start_index < num_reqs(sequence_buffer)
    /\ LET inp == _prepare_inputs(sequence_buffer, scheduler_output, start_index)
       IN  /\ \E selected_token_ids \in [1..inp.num_reqs -> SampledTokens] :
                combined_selected_tokens' =
                    Append(combined_selected_tokens, selected_token_ids)
           /\ forward_calls' =
                  Append(forward_calls,
                         [start_index |-> start_index,
                          end_index |-> inp.end_index,
                          num_reqs |-> inp.num_reqs,
                          page_lookups |-> inp.page_lookups,
                          slot_mapping_metadata |-> inp.slot_mapping_metadata,
                          num_scheduled_tokens_per_req |->
                              inp.num_scheduled_tokens_per_req,
                          positions |-> inp.positions,
                          input_ids |-> inp.input_ids,
                          seq_lens |-> inp.seq_lens,
                          pages_tables |-> inp.pages_tables,
                          padded_total_num_scheduled_tokens |->
                              inp.padded_total_num_scheduled_tokens,
                          padded_num_reqs |-> inp.padded_num_reqs])
           /\ start_index' = inp.end_index
           /\ sequence_buffer' =
                  [sequence_buffer EXCEPT
                     !.num_tokens =
                        [i \in DOMAIN @ |->
                           IF start_index <= i /\ i < inp.end_index
                           THEN @[i] + 1 ELSE @[i]]]
    /\ UNCHANGED <<pc, error, requests, scheduler_output,
                   model_runner_output, sched, bufVars>>

\* One iteration of the while loop: _prepare_inputs, then the forward pass and
\* the sampler.  Both are external: they may raise, and when they do not, any
\* token may come back for each request.
ForwardSubBatch ==
    /\ pc = "loop"
    /\ start_index < num_reqs(sequence_buffer)
    /\ LET inp == _prepare_inputs(sequence_buffer, scheduler_output, start_index)
       IN  IF inp.error # None
           THEN /\ pc' = "raised"
                /\ error' = inp.error
                /\ UNCHANGED loopVars
           ELSE \/ /\ \E selected_token_ids \in [1..inp.num_reqs -> SampledTokens] :
                          combined_selected_tokens' =
                              Append(combined_selected_tokens, selected_token_ids)
                   /\ forward_calls' =
                          Append(forward_calls,
                                 [start_index |-> start_index,
                                  end_index |-> inp.end_index,
                                  num_reqs |-> inp.num_reqs,
                                  page_lookups |-> inp.page_lookups,
                                  slot_mapping_metadata |-> inp.slot_mapping_metadata,
                                  num_scheduled_tokens_per_req |->
                                      inp.num_scheduled_tokens_per_req,
                                  positions |-> inp.positions,
                                  input_ids |-> inp.input_ids,
                                  seq_lens |-> inp.seq_lens,
                                  pages_tables |-> inp.pages_tables,
                                  padded_total_num_scheduled_tokens |->
                                      inp.padded_total_num_scheduled_tokens,
                                  padded_num_reqs |-> inp.padded_num_reqs])
                   /\ start_index' = inp.end_index
                   /\ UNCHANGED <<pc, error>>
                \/ /\ pc' = "raised"
                   /\ error' = Some("ForwardFailure")
                   /\ UNCHANGED loopVars
    /\ UNCHANGED <<sequence_buffer, requests, scheduler_output,
                   model_runner_output, sched, bufVars>>

\* After the loop: classify the slots, commit the accepted tokens, return.
CommitTokens ==
    /\ pc = "loop"
    /\ start_index >= num_reqs(sequence_buffer)
    /\ LET selected_token_ids == Concat(combined_selected_tokens)
           discard == discard_sampled_tokens_req_indices(
                          requests, sequence_buffer, scheduler_output)
           valid == valid_sampled_token_ids(requests, sequence_buffer,
                                            scheduler_output, selected_token_ids)
           st == commit_tokens([requests |-> requests,
                                sequence_buffer |-> sequence_buffer],
                               scheduler_output, valid, discard, 0)
       IN  IF combined_selected_tokens = <<>>
           THEN \* np.concatenate of an empty list (line 576)
                /\ pc' = "raised"
                /\ error' = Some("ValueError")
                /\ UNCHANGED <<sequence_buffer, requests, model_runner_output>>
           ELSE IF discard # {} /\ ~has_generators(sequence_buffer)
           THEN /\ pc' = "raised"
                /\ error' = Some("AttributeError")
                /\ UNCHANGED <<sequence_buffer, requests, model_runner_output>>
           ELSE /\ pc' = "returned"
                /\ requests' = st.requests
                /\ sequence_buffer' = st.sequence_buffer
                /\ model_runner_output' =
                       Some([req_ids |-> sequence_buffer._req_ids,
                             req_id_to_index |-> sequence_buffer.req_id_to_index,
                             sampled_token_ids |-> valid])
                /\ UNCHANGED error
    /\ UNCHANGED <<scheduler_output, loopVars, sched, bufVars>>

\* The caller has taken the output; the locals of the call are gone.
Return ==
    /\ pc = "returned"
    /\ pc' = "idle"
    /\ scheduler_output' = NoSchedulerOutput
    /\ model_runner_output' = None
    /\ start_index' = 0
    /\ combined_selected_tokens' = <<>>
    /\ forward_calls' = <<>>
    /\ UNCHANGED <<sequence_buffer, requests, error, sched, bufVars>>

Init ==
    /\ sequence_buffer = SequenceBufferInit
    /\ requests = EmptyDict
    /\ scheduler_output = NoSchedulerOutput
    /\ pc = "idle"
    /\ start_index = 0
    /\ combined_selected_tokens = <<>>
    /\ forward_calls = <<>>
    /\ model_runner_output = None
    /\ error = None
    /\ sched = SchedInit
    /\ removed_req_indices = {}
    /\ misuse = FALSE
    /\ last_call = NoCall
    /\ pad_call = NoPadCall
    /\ sample_call = NoSampleCall
    /\ multifuture = NoMultifuture
    /\ metrics_recorder = NoMetricsRecorder
    /\ result_call = NoResultCall

Next == ExecuteModel \/ ForwardSubBatch \/ CommitTokens \/ Return

Spec == Init /\ [][Next]_vars

\* ------------------------------------------------------------------------
\* A scheduler that breaks the protocol.  It keeps to it for its first step
\* and then, or at once, emits one SchedulerOutput with a fault in it and
\* stops:
\*   finish  finished_req_ids names an id it never gave the runner;
\*   key     num_scheduled_tokens has a key (counted in the total) for such
\*           an id, which no other field of the output mentions;
\*   cached  scheduled_cached_reqs has an entry for such an id;
\*   long    a new request comes with a prompt of max_model_len - 1 tokens,
\*           all scheduled, so that the step may exceed the largest bucket.
\* ------------------------------------------------------------------------
NoFault == [kind |-> "none", req_id |-> NoReq]

LongPrompt == [p \in 1..(max_model_len - 1) |-> 1]

\* ids the scheduler has never given the runner and does not give it now
NeverAdded(dec) == {r \in ReqIds : sched[r].status = "none" /\ dec[r].op = "skip"}

Faults(dec) ==
    {[kind |-> k, req_id |-> r] : k \in {"finish", "key", "cached"}, r \in NeverAdded(dec)}
    \cup {[kind |-> "long", req_id |-> r] : r \in {q \in ReqIds : dec[q].op = "new"}}
    \cup (IF sched = SchedInit THEN {NoFault} ELSE {})

FaultySchedulerOutput(dec, fault) ==
    LET so == MakeSchedulerOutput(dec)
        r == fault.req_id
    IN  CASE fault.kind = "finish" ->
               [so EXCEPT !.finished_req_ids = @ \cup {r}]
          [] fault.kind = "key" ->
               [so EXCEPT !.num_scheduled_tokens = DictSet(@, r, 1),
                          !.total_num_scheduled_tokens = @ + 1]
          [] fault.kind = "cached" ->
               [so EXCEPT !.scheduled_cached_reqs =
                              Append(@, [req_id |-> r,
                                         num_computed_tokens |-> 0,
                                         new_page_ids |-> <<>>,
                                         resumed_from_preemption |-> FALSE]),
                          !.num_scheduled_tokens = DictSet(@, r, 1),
                          !.total_num_scheduled_tokens = @ + 1]
          [] fault.kind = "long" ->
               [so EXCEPT !.scheduled_new_reqs =
                              [i \in DOMAIN @ |->
                                 IF @[i].req_id # r THEN @[i]
                                 ELSE [@[i] EXCEPT
                                         !.prompt_token_ids = LongPrompt,
                                         !.page_ids =
                                            [j \in 1..CeilDiv(Len(LongPrompt), page_size)
                                               |-> PageOf(r, 0, j)]]],
                          !.num_scheduled_tokens = DictSet(@, r, Len(LongPrompt)),
                          !.total_num_scheduled_tokens = @ - dec[r].n + Len(LongPrompt)]
          [] OTHER -> so

\* The scheduler's table once it has stopped: the ids it never gave the
\* runner are marked "never", the others are done.
SchedStopped(dec) ==
    [r \in ReqIds |->
        [status |-> IF r \in NeverAdded(dec) THEN "never" ELSE "done",
         num_computed_tokens |-> 0, page_ids |-> <<>>, bank |-> 0]]

ExecuteModelUnchecked ==
    /\ pc = "idle"
    /\ \E dec \in StepChoices :
       \E fault \in Faults(dec) :
          LET so == FaultySchedulerOutput(dec, fault)
          IN  execute_model_entry(so, IF fault = NoFault THEN SchedAfter(dec)
                                      ELSE SchedStopped(dec))

NextFaulty == ExecuteModelUnchecked \/ ForwardSubBatch \/ CommitTokens \/ Return

SpecFaulty == Init /\ [][NextFaulty]_vars

\* ------------------------------------------------------------------------
\* SequenceBuffer driven directly, method by method (as its tests and any
\* other caller may): add_request, remove_request, swap_states, condense.
\* The caller keeps the slots remove_request returned in removed_req_indices
\* and hands them to add_request or condense, as _update_states does.
\* ------------------------------------------------------------------------
runnerVars == <<scheduler_output, pc, start_index, combined_selected_tokens,
                forward_calls, model_runner_output, error, sched, pad_call,
                sample_call, utilVars>>

\* A request state handed to add_request by a direct caller.
BufRequest(r, out) ==
    [req_id |-> r,
     prompt_token_ids |-> PromptOf(r),
     sampling_params |-> SamplingParamsOf(r),
     generator_seed |-> GeneratorSeedOf(r),
     page_ids |-> [j \in 1..CeilDiv(Len(PromptOf(r)) + Len(out), page_size) |->
                      PageOf(r, 0, j)],
     num_computed_tokens |-> IF out = <<>> THEN 0 ELSE Len(PromptOf(r)),
     output_token_ids |-> out]

InitBuf ==
    /\ sequence_buffer = SequenceBufferInit
    /\ \E with_output \in {{}, {"A"}} :
         requests = [r \in ReqIds |->
                        BufRequest(r, IF r \in with_output THEN <<2>> ELSE <<>>)]
    /\ scheduler_output = NoSchedulerOutput
    /\ pc = "idle"
    /\ start_index = 0
    /\ combined_selected_tokens = <<>>
    /\ forward_calls = <<>>
    /\ model_runner_output = None
    /\ error = None
    /\ sched = SchedInit
    /\ removed_req_indices = {}
    /\ misuse = FALSE
    /\ last_call = NoCall
    /\ pad_call = NoPadCall
    /\ sample_call = NoSampleCall
    /\ multifuture = NoMultifuture
    /\ metrics_recorder = NoMetricsRecorder
    /\ result_call = NoResultCall

\* add_request(request, req_index): req_index is None or a slot that
\* remove_request freed.  The call raises (and changes nothing) when the
\* slot is not below max_num_reqs or lies past the end of _req_ids.
BufAddRequest ==
    /\ ~misuse
    /\ \E r \in ReqIds \ DOMAIN sequence_buffer.req_id_to_index :
       \E req_index \in {None} \cup {Some(h) : h \in removed_req_indices} :
         LET slot == add_request_index(sequence_buffer, req_index)
         IN  /\ slot < max_num_reqs
             /\ slot <= Len(sequence_buffer._req_ids)
             /\ sequence_buffer' = add_request(sequence_buffer, requests[r], req_index)
             /\ removed_req_indices' =
                    IF req_index = None THEN removed_req_indices
                    ELSE removed_req_indices \ {req_index[1]}
             /\ misuse' = (req_index = None /\ removed_req_indices # {})
             /\ last_call' = [op |-> "add_request", slots |-> {slot}]
    /\ UNCHANGED <<requests, runnerVars>>

BufRemoveRequest ==
    /\ ~misuse
    /\ \E r \in DOMAIN sequence_buffer.req_id_to_index :
         /\ sequence_buffer' = remove_request(sequence_buffer, r)
         /\ removed_req_indices' =
                removed_req_indices \cup {sequence_buffer.req_id_to_index[r]}
         /\ last_call' = [op |-> "remove_request",
                          slots |-> {sequence_buffer.req_id_to_index[r]}]
    /\ UNCHANGED <<requests, runnerVars, misuse>>

\* swap_states asserts that both slots hold a request.
BufSwapStates ==
    /\ ~misuse
    /\ \E i1, i2 \in 0..(Len(sequence_buffer._req_ids) - 1) :
         /\ i1 < i2
         /\ sequence_buffer._req_ids[i1 + 1] # NoReq
         /\ sequence_buffer._req_ids[i2 + 1] # NoReq
         /\ sequence_buffer' = swap_states(sequence_buffer, i1, i2)
         /\ last_call' = [op |-> "swap_states", slots |-> {i1, i2}]
    /\ UNCHANGED <<requests, runnerVars, removed_req_indices, misuse>>

\* condense(empty_req_indices) with the open holes, highest first.
BufCondense ==
    /\ ~misuse
    /\ sequence_buffer' = condense(sequence_buffer, SortDesc(removed_req_indices))
    /\ removed_req_indices' = {}
    /\ last_call' = [op |-> "condense", slots |-> removed_req_indices]
    /\ UNCHANGED <<requests, runnerVars, misuse>>

NextBuf == BufAddRequest \/ BufRemoveRequest \/ BufSwapStates \/ BufCondense

SpecBuf == InitBuf /\ [][NextBuf]_vars

\* ------------------------------------------------------------------------
\* The padding helpers called directly, one call per behaviour: the initial
\* state holds the arguments, the step applies the helper.  Helpers that pad
\* a count are applied a second time to their own result.
\* ------------------------------------------------------------------------
PaddingGaps == {0, 8, 16, 24}

TokenPaddingsInputs ==
    {[op |-> "input", fn |-> "_get_token_paddings",
      max_token_size |-> m, padding_gap |-> g] :
        m \in 1..MaxTokenSize, g \in PaddingGaps}

PaddedTokenLenInputs ==
    {[op |-> "input", fn |-> "_get_padded_token_len",
      paddings |-> _get_token_paddings(min_token_size, m, g), x |-> x] :
        m \in 1..MaxTokenSize, g \in PaddingGaps, x \in 0..MaxPadTokens}

PaddedSlicesInputs ==
    {[op |-> "input", fn |-> "_get_padded_num_kv_cache_update_slices",
      num_tokens |-> n, max_num_reqs |-> r, page_size |-> p,
      num_slices_per_kv_cache_update_page |-> k] :
        n \in 0..MaxPadTokens, r \in 1..max_num_reqs, p \in 1..page_size,
        k \in 1..MaxSlicesPerPage}

\* take_nearest_length: the first length not below the target, else the last
take_nearest_length(lengths, length) ==
    LET pos == bisect_left(lengths, length)
    IN  IF pos = Len(lengths) THEN lengths[Len(lengths)] ELSE lengths[pos + 1]

\* list.index: the 0-based position of the first entry equal to x
list_index(lst, x) == SetMin({i \in DOMAIN lst : lst[i] = x}) - 1

\* pad_tokens with prefill_lengths given and max_prefill_length, when given,
\* one of them.  The third value returned is the field length.
pad_tokens(tokens, valids, pad_token_id, prefill_lengths, max_prefill_length, jax_padding, right_padding) ==
    LET lengths == IF max_prefill_length = None THEN prefill_lengths
                   ELSE SubSeq(prefill_lengths, 1,
                               list_index(prefill_lengths, max_prefill_length[1]))
                           \o <<max_prefill_length[1]>>
        true_length == Len(tokens)
        padded_length == take_nearest_length(lengths, true_length)
        padding == padded_length - true_length
        pad(arr, value) ==
            IF padding < 0 THEN LastN(arr, padded_length)
            ELSE IF right_padding THEN arr \o [i \in 1..padding |-> value]
            ELSE [i \in 1..padding |-> value] \o arr
        padded_tokens == pad(tokens, pad_token_id)
    IN  [padded_tokens |-> padded_tokens,
         padded_valids |-> pad(valids, 0),
         batched |-> jax_padding,
         length |-> IF true_length > Len(padded_tokens)
                    THEN Len(padded_tokens) ELSE true_length]

MaxBucket == 4
MaxTrueLength == 5

PrefillLengths == {SortAsc(S) : S \in (SUBSET (1..MaxBucket)) \ {{}}}

PadTokensInputs ==
    {[op |-> "input", fn |-> "pad_tokens",
      tokens |-> [i \in 1..n |-> i], valids |-> [i \in 1..n |-> 1],
      pad_token_id |-> 0, prefill_lengths |-> b, max_prefill_length |-> m,
      jax_padding |-> j, right_padding |-> r] :
        n \in 0..MaxTrueLength, b \in PrefillLengths,
        m \in {None} \cup {Some(x) : x \in 1..MaxBucket},
        j \in BOOLEAN, r \in BOOLEAN}

objectVars == <<sequence_buffer, requests, scheduler_output, pc, start_index,
                combined_selected_tokens, forward_calls, model_runner_output,
                error, sched, removed_req_indices, misuse, last_call, utilVars>>

InitPad ==
    /\ sequence_buffer = SequenceBufferInit
    /\ requests = EmptyDict
    /\ scheduler_output = NoSchedulerOutput
    /\ pc = "idle"
    /\ start_index = 0
    /\ combined_selected_tokens = <<>>
    /\ forward_calls = <<>>
    /\ model_runner_output = None
    /\ error = None
    /\ sched = SchedInit
    /\ removed_req_indices = {}
    /\ misuse = FALSE
    /\ last_call = NoCall
    /\ pad_call \in TokenPaddingsInputs \cup PaddedTokenLenInputs
                      \cup PaddedSlicesInputs
                      \cup {c \in PadTokensInputs :
                               c.max_prefill_length = None
                               \/ \E i \in DOMAIN c.prefill_lengths :
                                     c.prefill_lengths[i] = c.max_prefill_length[1]}
    /\ sample_call = NoSampleCall
    /\ multifuture = NoMultifuture
    /\ metrics_recorder = NoMetricsRecorder
    /\ result_call = NoResultCall

CallGetTokenPaddings ==
    /\ pad_call.op = "input"
    /\ pad_call.fn = "_get_token_paddings"
    /\ pad_call' =
          [op |-> "done", fn |-> pad_call.fn,
           max_token_size |-> pad_call.max_token_size,
           padding_gap |-> pad_call.padding_gap,
           result |-> _get_token_paddings(min_token_size, pad_call.max_token_size,
                                          pad_call.padding_gap)]
    /\ UNCHANGED <<objectVars, sample_call>>

CallGetPaddedTokenLen ==
    /\ pad_call.op = "input"
    /\ pad_call.fn = "_get_padded_token_len"
    /\ LET result == _get_padded_token_len(pad_call.paddings, pad_call.x)
       IN  pad_call' =
              [op |-> "done", fn |-> pad_call.fn,
               paddings |-> pad_call.paddings, x |-> pad_call.x,
               result |-> result,
               again |-> IF result = None THEN None
                         ELSE _get_padded_token_len(pad_call.paddings, result[1])]
    /\ UNCHANGED <<objectVars, sample_call>>

CallGetPaddedSlices ==
    /\ pad_call.op = "input"
    /\ pad_call.fn = "_get_padded_num_kv_cache_update_slices"
    /\ LET result == _get_padded_num_kv_cache_update_slices(
                         pad_call.num_tokens, pad_call.max_num_reqs,
                         pad_call.page_size,
                         pad_call.num_slices_per_kv_cache_update_page)
       IN  pad_call' =
              [op |-> "done", fn |-> pad_call.fn,
               num_tokens |-> pad_call.num_tokens,
               max_num_reqs |-> pad_call.max_num_reqs,
               page_size |-> pad_call.page_size,
               num_slices_per_kv_cache_update_page |->
                   pad_call.num_slices_per_kv_cache_update_page,
               result |-> result,
               again |-> _get_padded_num_kv_cache_update_slices(
                             result, pad_call.max_num_reqs, pad_call.page_size,
                             pad_call.num_slices_per_kv_cache_update_page)]
    /\ UNCHANGED <<objectVars, sample_call>>

CallPadTokens ==
    /\ pad_call.op = "input"
    /\ pad_call.fn = "pad_tokens"
    /\ pad_call' =
          [op |-> "done", fn |-> pad_call.fn,
           tokens |-> pad_call.tokens,
           prefill_lengths |-> pad_call.prefill_lengths,
           max_prefill_length |-> pad_call.max_prefill_length,
           result |-> pad_tokens(pad_call.tokens, pad_call.valids,
                                 pad_call.pad_token_id, pad_call.prefill_lengths,
                                 pad_call.max_prefill_length, pad_call.jax_padding,
                                 pad_call.right_padding)]
    /\ UNCHANGED <<objectVars, sample_call>>

NextPad ==
    \/ CallGetTokenPaddings
    \/ CallGetPaddedTokenLen
    \/ CallGetPaddedSlices
    \/ CallPadTokens

SpecPad == InitPad /\ [][NextPad]_vars

\* ------------------------------------------------------------------------
\* The slot mapper, called directly: _get_slot_mapping_metadata and the
\* padding of its result (the tail of _prepare_inputs) on up to max_num_reqs
\* requests with any offsets and scheduled counts.
\* ------------------------------------------------------------------------
\* num_computed_tokens of a request: at the head of a page, at its last
\* token, and inside a later page
SlotOffsets == {0, page_size - 1, page_size + 1}

\* scheduled tokens of a request: from one token to more than a page
SlotCounts == {1, 2, page_size, page_size + 2}

max_num_pages_per_req == CeilDiv(max_model_len, page_size)

\* a buffer whose first rows hold these num_computed_tokens; row s of the
\* page table holds the pages s * max_num_pages_per_req + 1 ..
SlotBuffer(nc) ==
    [SequenceBufferInit EXCEPT
       !.num_computed_tokens = [s \in Slots |-> IF s < Len(nc) THEN nc[s + 1] ELSE 0],
       !.page_table =
           [s \in Slots |->
              IF s < Len(nc)
              THEN [l \in 1..max_num_pages_per_req |-> s * max_num_pages_per_req + l]
              ELSE <<>>]]

InitSlots ==
    /\ sequence_buffer = SequenceBufferInit
    /\ requests = EmptyDict
    /\ scheduler_output = NoSchedulerOutput
    /\ pc = "idle"
    /\ start_index = 0
    /\ combined_selected_tokens = <<>>
    /\ forward_calls = <<>>
    /\ model_runner_output = None
    /\ error = None
    /\ sched = SchedInit
    /\ removed_req_indices = {}
    /\ misuse = FALSE
    /\ last_call = NoCall
    /\ pad_call = NoPadCall
    /\ sample_call = NoSampleCall
    /\ multifuture = NoMultifuture
    /\ metrics_recorder = NoMetricsRecorder
    /\ result_call = NoResultCall

\* lines 494-510 of _prepare_inputs: the slot mapping, the padded slice
\* count, and the width of the zero padding np.pad is asked for.  The inputs
\* are those that reach line 494: _prepare_inputs raises before it for a
\* total above the largest bucket.
CallGetSlotMappingMetadata ==
    /\ pad_call.op = "none"
    /\ \E n \in 1..max_num_reqs :
       \E num_computed_tokens \in [1..n -> SlotOffsets] :
       \E num_scheduled_tokens_per_req \in [1..n -> SlotCounts] :
       \E num_slices_per_kv_cache_update_page \in 1..MaxSlicesPerPage :
          LET total_num_scheduled_tokens == SeqSum(num_scheduled_tokens_per_req)
              padded_total_num_scheduled_tokens ==
                  _get_padded_token_len(num_tokens_paddings,
                                        total_num_scheduled_tokens)[1]
              slot_mapping_metadata ==
                  _get_slot_mapping_metadata(SlotBuffer(num_computed_tokens), n,
                                             num_scheduled_tokens_per_req)
              padded_num_slices ==
                  _get_padded_num_kv_cache_update_slices(
                      padded_total_num_scheduled_tokens, max_num_reqs, page_size,
                      num_slices_per_kv_cache_update_page)
          IN  /\ _prepare_inputs_error(total_num_scheduled_tokens) = None
              /\ pad_call' =
                    [op |-> "done", fn |-> "_get_slot_mapping_metadata",
                     num_computed_tokens |-> num_computed_tokens,
                     num_scheduled_tokens_per_req |-> num_scheduled_tokens_per_req,
                     num_slices_per_kv_cache_update_page |->
                         num_slices_per_kv_cache_update_page,
                     slot_mapping_metadata |-> slot_mapping_metadata,
                     num_kv_update_slices |-> Len(slot_mapping_metadata),
                     padded_num_slices |-> padded_num_slices,
                     pad_width |-> padded_num_slices - Len(slot_mapping_metadata)]
              /\ UNCHANGED <<objectVars, sample_call>>

NextSlots == CallGetSlotMappingMetadata

SpecSlots == InitSlots /\ [][NextSlots]_vars

\* ------------------------------------------------------------------------
\* The sampler, called directly: ModelRunnerSamplingMetadata.from_sequence_buffer
\* and _sample_from_logits_func on a buffer of up to max_num_reqs requests.
\* Temperatures and top_p are in tenths.
\* ------------------------------------------------------------------------
top_k_for_computation == 64

all_greedy(sb) == sb.random_reqs = {}

\* the metadata with the rows of the buffer in every batch
from_sequence_buffer_always_generates(sb, padded_num_reqs, generate_params_if_all_greedy) ==
    LET rows == 0..(Min(padded_num_reqs, max_num_reqs) - 1)
        fill_slice(arr, fill_val) ==
            [i \in rows |-> IF num_reqs(sb) <= i THEN fill_val ELSE arr[i]]
    IN  [temperature |-> fill_slice(sb.temperature, -10),
         min_p |-> fill_slice(sb.min_p, 0),
         top_k |-> fill_slice(sb.top_k, 0),
         top_p |-> fill_slice(sb.top_p, 10),
         all_greedy |-> all_greedy(sb),
         logprobs |-> FALSE]

\* ModelRunnerSamplingMetadata.from_sequence_buffer
from_sequence_buffer(sb, padded_num_reqs, generate_params_if_all_greedy) ==
    IF all_greedy(sb) /\ ~generate_params_if_all_greedy
    THEN [temperature |-> [i \in 0..(padded_num_reqs - 1) |-> 0],
          min_p |-> [i \in 0..(padded_num_reqs - 1) |-> 0],
          top_k |-> [i \in 0..(padded_num_reqs - 1) |-> 0],
          top_p |-> [i \in 0..(padded_num_reqs - 1) |-> 0],
          all_greedy |-> TRUE,
          logprobs |-> FALSE]
    ELSE LET rows == 0..(Min(padded_num_reqs, max_num_reqs) - 1)
             fill_slice(arr, fill_val) ==
                 [i \in rows |-> IF num_reqs(sb) <= i THEN fill_val ELSE arr[i]]
         IN  [temperature |-> fill_slice(sb.temperature, -10),
              min_p |-> fill_slice(sb.min_p, 0),
              top_k |-> fill_slice(sb.top_k, 0),
              top_p |-> fill_slice(sb.top_p, 10),
              all_greedy |-> all_greedy(sb),
              logprobs |-> FALSE]

Tokens == 0..(vocab_size - 1)

\* the first index of the largest entry
argmax(row) ==
    CHOOSE t \in DOMAIN row :
        \A u \in DOMAIN row : row[t] > row[u] \/ (row[t] = row[u] /\ t <= u)

\* the tokens of a row from the largest logit down
RECURSIVE ranking(_, _)
ranking(row, left) ==
    IF left = {} THEN <<>>
    ELSE LET t == argmax([u \in left |-> row[u]])
         IN  <<t>> \o ranking(row, left \ {t})

RECURSIVE Pow2(_)
Pow2(n) == IF n <= 0 THEN 1 ELSE 2 * Pow2(n - 1)

\* The sampling kernel (vsurge.core.functions), one row: the set of tokens it
\* can return.  A temperature of -1 is the greedy sentinel: the argmax,
\* whatever top_p is.  A positive temperature divides the logits; of the
\* top_k_for_computation largest, the token of rank r is kept when the mass
\* of the tokens before it is below top_p, and the first always is.  Mass is
\* 2 ^ scaled logit.  For any other temperature the division is undefined
\* and any of the candidates may come back.
sample_top_p_efficient(row, top_p, temperature, k) ==
    LET full == ranking(row, DOMAIN row)
        rank == SubSeq(full, 1, Min(k, Len(full)))
        scaled(t) == (row[t] * 10) \div temperature
        mass(r) == Pow2(scaled(rank[r]))
        total == SeqSum([r \in DOMAIN rank |-> mass(r)])
        before(r) == SeqSum([q \in 1..(r - 1) |-> mass(q)])
    IN  IF temperature = -10 THEN {argmax(row)}
        ELSE IF temperature <= 0 THEN {rank[r] : r \in DOMAIN rank}
        ELSE {rank[r] : r \in {q \in DOMAIN rank :
                                  q = 1 \/ before(q) * 10 < top_p * total}}

\* _sample_from_logits_func: the token vectors the vmapped kernel can return
\* for the rows of logits.  Only top_p and temperature are handed over.
_sample_from_logits_func(logits, sampling_params) ==
    {toks \in [DOMAIN logits -> Tokens] :
        \A i \in DOMAIN logits :
            toks[i] \in sample_top_p_efficient(logits[i], sampling_params.top_p[i],
                                               sampling_params.temperature[i],
                                               top_k_for_computation)}

\* rows of logits: one token at 3, the next one at 1, the rest at 0
LogitsRows ==
    {[t \in Tokens |-> IF t = h THEN 3 ELSE IF t = (h + 1) % vocab_size THEN 1 ELSE 0] :
        h \in Tokens}

\* A request with the sampling parameters of another
SampleRequest(r, kind) ==
    [BufRequest(r, <<>>) EXCEPT !.sampling_params = SamplingParamsOf(kind)]

RECURSIVE SampleBuffer(_)
SampleBuffer(kinds) ==
    IF kinds = <<>> THEN SequenceBufferInit
    ELSE LET n == Len(kinds)
         IN  add_request(SampleBuffer(SubSeq(kinds, 1, n - 1)),
                         SampleRequest(IdOrder[n], kinds[n]), None)

SamplePaddedNumReqs(n) == _get_padded_num_reqs_with_upper_limit(n, max_num_reqs)

InitSample ==
    /\ \E n \in 1..Min(max_num_reqs, Len(IdOrder)) :
        \E kinds \in [1..n -> ReqIds] :
          /\ sequence_buffer = SampleBuffer(kinds)
          /\ requests = [r \in {IdOrder[j] : j \in 1..n} |->
                            SampleRequest(r, kinds[IdIndex(r)])]
          /\ \E rows \in [0..(n - 1) -> LogitsRows] :
                sample_call =
                    [op |-> "input",
                     logits |-> [i \in 0..(SamplePaddedNumReqs(n) - 1) |->
                                    IF i < n THEN rows[i]
                                    ELSE [t \in Tokens |-> 0]]]
    /\ scheduler_output = NoSchedulerOutput
    /\ pc = "idle"
    /\ start_index = 0
    /\ combined_selected_tokens = <<>>
    /\ forward_calls = <<>>
    /\ model_runner_output = None
    /\ error = None
    /\ sched = SchedInit
    /\ removed_req_indices = {}
    /\ misuse = FALSE
    /\ last_call = NoCall
    /\ pad_call = NoPadCall
    /\ multifuture = NoMultifuture
    /\ metrics_recorder = NoMetricsRecorder
    /\ result_call = NoResultCall

\* execute_model lines 563-571: the sampler on the logits of the sub-batch,
\* the result cut to num_reqs.
SampleFromLogits ==
    /\ sample_call.op = "input"
    /\ LET n == num_reqs(sequence_buffer)
           sampling_params ==
               from_sequence_buffer(sequence_buffer, SamplePaddedNumReqs(n), FALSE)
       IN  \E toks \in _sample_from_logits_func(sample_call.logits, sampling_params) :
              sample_call' =
                  [op |-> "done",
                   logits |-> sample_call.logits,
                   sampling_params |-> sampling_params,
                   selected_token_ids |-> [i \in 0..(n - 1) |-> toks[i]]]
    /\ UNCHANGED <<objectVars, pad_call>>

NextSample == SampleFromLogits

SpecSample == InitSample /\ [][NextSample]_vars

\* ------------------------------------------------------------------------
\* AsyncMultifuture (vsurge/utils.py).  Producers call add_result, close,
\* cancel and set_exception from their own threads; every call hands its
\* work to the event loop with call_soon_threadsafe; the loop runs the
\* callbacks in the order they were handed over; the consumer awaits
\* __anext__ on the loop.
\* ------------------------------------------------------------------------
MaxResults == 2
MaxFinalizeCalls == 2
MfThreads == {"t1", "t2"}

\* what travels through _queue: a result, or an _Exception wrapper.  nth and
\* results_before record when the wrapper was made: it is the nth exception
\* set, after results_before results had been added.
ResultItem(result) ==
    [is_exception |-> FALSE, value |-> result, nth |-> 0, results_before |-> 0]
ExceptionItem(exception, nth, results_before) ==
    [is_exception |-> TRUE, value |-> exception, nth |-> nth,
     results_before |-> results_before]

AsyncMultifutureInit ==
    [op |-> "live",
     _cancelled |-> FALSE,
     _done |-> FALSE,
     _loop |-> <<>>,
     _queue |-> <<>>,
     threads |-> [t \in MfThreads |-> [pc |-> "idle", exception |-> "none"]],
     yielded |-> <<>>,
     added |-> 0,
     exceptions_set |-> 0,
     finalize_calls |-> 0,
     finalize_returned |-> 0]

\* loop.call_soon_threadsafe(callback): appended to the loop's ready callbacks
call_soon_threadsafe(mf, callback) == [mf EXCEPT !._loop = Append(@, callback)]

\* the hand-over that puts the callback ahead of the ones waiting
call_soon_threadsafe_first(mf, callback) == [mf EXCEPT !._loop = <<callback>> \o @]

done(mf) == mf._done

cancelled(mf) == mf._cancelled

\* add_result with its callback run ahead of the ones waiting
add_result_jumps_queue(mf, result) ==
    call_soon_threadsafe_first([mf EXCEPT !.added = @ + 1],
                               [fn |-> "put_nowait", item |-> ResultItem(result)])

add_result(mf, result) ==
    call_soon_threadsafe([mf EXCEPT !.added = @ + 1],
                         [fn |-> "put_nowait", item |-> ResultItem(result)])

\* set_exception, first statement (line 266)
set_exception_put(mf, exception) ==
    call_soon_threadsafe(
        [mf EXCEPT !.exceptions_set = @ + 1],
        [fn |-> "put_nowait",
         item |-> ExceptionItem(exception, mf.exceptions_set + 1, mf.added)])

\* _done set by the caller itself
set_exception_done_at_once(mf) == [mf EXCEPT !._done = TRUE]

\* set_exception, second statement (line 267)
set_exception_done(mf) ==
    call_soon_threadsafe(mf, [fn |-> "done_set", item |-> ResultItem(0)])

\* the loop runs one callback
run_callback(mf) ==
    LET callback == Head(mf._loop)
    IN  IF callback.fn = "put_nowait"
        THEN [mf EXCEPT !._loop = Tail(@), !._queue = Append(@, callback.item)]
        ELSE [mf EXCEPT !._loop = Tail(@), !._done = TRUE]

\* __anext__: the item at the head of _queue, returned or raised
anext(mf) == [mf EXCEPT !._queue = Tail(@), !.yielded = Append(@, Head(mf._queue))]

engineVars == <<sequence_buffer, requests, scheduler_output, pc, start_index, combined_selected_tokens, forward_calls, model_runner_output, error, sched, removed_req_indices, misuse, last_call, pad_call, sample_call, result_call>>

InitMultifuture ==
    /\ sequence_buffer = SequenceBufferInit
    /\ requests = EmptyDict
    /\ scheduler_output = NoSchedulerOutput
    /\ pc = "idle"
    /\ start_index = 0
    /\ combined_selected_tokens = <<>>
    /\ forward_calls = <<>>
    /\ model_runner_output = None
    /\ error = None
    /\ sched = SchedInit
    /\ removed_req_indices = {}
    /\ misuse = FALSE
    /\ last_call = NoCall
    /\ pad_call = NoPadCall
    /\ sample_call = NoSampleCall
    /\ multifuture = AsyncMultifutureInit
    /\ metrics_recorder = NoMetricsRecorder
    /\ result_call = NoResultCall

MfIdle(t) == multifuture.threads[t].pc = "idle"

\* a thread enters set_exception(exception)
MfEnter(t, exception) ==
    [multifuture EXCEPT !.threads[t] = [pc |-> "put", exception |-> exception],
                        !.finalize_calls = @ + 1]

MfAddResult ==
    /\ multifuture.added < MaxResults
    /\ \E t \in MfThreads :
          /\ MfIdle(t)
          /\ multifuture' = add_result(multifuture, multifuture.added + 1)
    /\ UNCHANGED <<engineVars, metrics_recorder>>

\* cancel(): _cancelled.set(), then set_exception(CancelledError())
MfCancel ==
    /\ multifuture.finalize_calls < MaxFinalizeCalls
    /\ \E t \in MfThreads :
          /\ MfIdle(t)
          /\ multifuture' = [MfEnter(t, "CancelledError") EXCEPT !._cancelled = TRUE]
    /\ UNCHANGED <<engineVars, metrics_recorder>>

\* close(): set_exception(StopAsyncIteration())
MfClose ==
    /\ multifuture.finalize_calls < MaxFinalizeCalls
    /\ \E t \in MfThreads :
          /\ MfIdle(t)
          /\ multifuture' = MfEnter(t, "StopAsyncIteration")
    /\ UNCHANGED <<engineVars, metrics_recorder>>

\* set_exception(e) called by a user
MfSetException ==
    /\ multifuture.finalize_calls < MaxFinalizeCalls
    /\ \E t \in MfThreads :
          /\ MfIdle(t)
          /\ multifuture' = MfEnter(t, "ValueError")
    /\ UNCHANGED <<engineVars, metrics_recorder>>

MfSetExceptionPut ==
    /\ \E t \in MfThreads :
          /\ multifuture.threads[t].pc = "put"
          /\ multifuture' =
                [set_exception_put(multifuture, multifuture.threads[t].exception)
                    EXCEPT !.threads[t].pc = "done"]
    /\ UNCHANGED <<engineVars, metrics_recorder>>

MfSetExceptionDone ==
    /\ \E t \in MfThreads :
          /\ multifuture.threads[t].pc = "done"
          /\ multifuture' =
                [set_exception_done(multifuture)
                    EXCEPT !.threads[t] = [pc |-> "idle", exception |-> "none"],
                           !.finalize_returned = @ + 1]
    /\ UNCHANGED <<engineVars, metrics_recorder>>

MfRunCallback ==
    /\ multifuture._loop # <<>>
    /\ multifuture' = run_callback(multifuture)
    /\ UNCHANGED <<engineVars, metrics_recorder>>

MfAnext ==
    /\ multifuture._queue # <<>>
    /\ multifuture' = anext(multifuture)
    /\ UNCHANGED <<engineVars, metrics_recorder>>

NextMultifuture ==
    \/ MfAddResult
    \/ MfCancel
    \/ MfClose
    \/ MfSetException
    \/ MfSetExceptionPut
    \/ MfSetExceptionDone
    \/ MfRunCallback
    \/ MfAnext

SpecMultifuture == InitMultifuture /\ [][NextMultifuture]_vars

\* ------------------------------------------------------------------------
\* MetricsRecorder (vsurge/utils.py): threads calling record_prefill_op_time.
\* _max_list_len is 1000 in the code; the bound below stands for it.
\* ------------------------------------------------------------------------
_max_list_len == 3
MaxRecordCalls == 5
MrThreads == {"t1", "t2"}
DurationsMs == {1, 2}

MetricsRecorderInit ==
    [op |-> "live",
     metrics |-> [prefill_op_ms |-> <<>>, prefill_ops_count |-> 0],
     _lock |-> "free",
     threads |-> [t \in MrThreads |-> [pc |-> "idle", duration_ms |-> 0, count |-> 0]],
     calls |-> 0,
     recorded |-> <<>>]

\* the append that keeps every entry
_append_to_list_untrimmed(metrics, key, value) ==
    [metrics EXCEPT ![key] = Append(@, value)]

\* _append_to_list: append, then keep the last _max_list_len entries
_append_to_list(metrics, key, value) ==
    [metrics EXCEPT ![key] = LastN(Append(@, value), _max_list_len)]

\* the lock taken whether or not another thread holds it
lock_acquire_unguarded(mr, t) == TRUE

\* with self._lock: entered only when no thread holds the lock
lock_acquire(mr, t) == mr._lock = "free"

InitMetrics ==
    /\ sequence_buffer = SequenceBufferInit
    /\ requests = EmptyDict
    /\ scheduler_output = NoSchedulerOutput
    /\ pc = "idle"
    /\ start_index = 0
    /\ combined_selected_tokens = <<>>
    /\ forward_calls = <<>>
    /\ model_runner_output = None
    /\ error = None
    /\ sched = SchedInit
    /\ removed_req_indices = {}
    /\ misuse = FALSE
    /\ last_call = NoCall
    /\ pad_call = NoPadCall
    /\ sample_call = NoSampleCall
    /\ multifuture = NoMultifuture
    /\ metrics_recorder = MetricsRecorderInit
    /\ result_call = NoResultCall

\* record_prefill_op_time(duration_ms) is called: the thread waits for the lock
MrCall ==
    /\ metrics_recorder.calls < MaxRecordCalls
    /\ \E t \in MrThreads, duration_ms \in DurationsMs :
          /\ metrics_recorder.threads[t].pc = "idle"
          /\ metrics_recorder' =
                [metrics_recorder EXCEPT
                    !.threads[t] = [pc |-> "lock", duration_ms |-> duration_ms, count |-> 0],
                    !.calls = @ + 1]
    /\ UNCHANGED <<engineVars, multifuture>>

MrAcquire ==
    /\ \E t \in MrThreads :
          /\ metrics_recorder.threads[t].pc = "lock"
          /\ lock_acquire(metrics_recorder, t)
          /\ metrics_recorder' =
                [metrics_recorder EXCEPT !._lock = t, !.threads[t].pc = "append"]
    /\ UNCHANGED <<engineVars, multifuture>>

MrAppendToList ==
    /\ \E t \in MrThreads :
          /\ metrics_recorder.threads[t].pc = "append"
          /\ metrics_recorder' =
                [metrics_recorder EXCEPT
                    !.metrics = _append_to_list(@, "prefill_op_ms",
                                                metrics_recorder.threads[t].duration_ms),
                    !.threads[t].pc = "read"]
    /\ UNCHANGED <<engineVars, multifuture>>

\* self.metrics["prefill_ops_count"] += 1: the read
MrReadCount ==
    /\ \E t \in MrThreads :
          /\ metrics_recorder.threads[t].pc = "read"
          /\ metrics_recorder' =
                [metrics_recorder EXCEPT
                    !.threads[t].count = metrics_recorder.metrics.prefill_ops_count,
                    !.threads[t].pc = "write"]
    /\ UNCHANGED <<engineVars, multifuture>>

\* ... and the write
MrWriteCount ==
    /\ \E t \in MrThreads :
          /\ metrics_recorder.threads[t].pc = "write"
          /\ metrics_recorder' =
                [metrics_recorder EXCEPT
                    !.metrics.prefill_ops_count = metrics_recorder.threads[t].count + 1,
                    !.threads[t].pc = "release"]
    /\ UNCHANGED <<engineVars, multifuture>>

\* the with block is left and the call returns
MrRelease ==
    /\ \E t \in MrThreads :
          /\ metrics_recorder.threads[t].pc = "release"
          /\ metrics_recorder' =
                [metrics_recorder EXCEPT
                    !._lock = IF @ = t THEN "free" ELSE @,
                    !.recorded = Append(@, metrics_recorder.threads[t].duration_ms),
                    !.threads[t] = [pc |-> "idle", duration_ms |-> 0, count |-> 0]]
    /\ UNCHANGED <<engineVars, multifuture>>

NextMetrics ==
    \/ MrCall
    \/ MrAcquire
    \/ MrAppendToList
    \/ MrReadCount
    \/ MrWriteCount
    \/ MrRelease

SpecMetrics == InitMetrics /\ [][NextMetrics]_vars

\* ------------------------------------------------------------------------
\* vsurge: process_result_tokens, called step after step for one slot
\* ------------------------------------------------------------------------
\* The tokens of one slot are SlotData: tokens and valid are matrices of
\* shape (samples, speculations), lengths has one entry per sample.  Samples
\* are 0-based as in the code, the columns of a row are a 1-based sequence.
MaxSpeculations == 2
slot_max_length == 2
SampleIds == {0, 1}
TextToken == 1
EosToken == 2
eos_token_id == <<EosToken>>

In(x, list) == \E i \in 1..Len(list) : list[i] = x

\* The loop over spec_idx for one sample that is not complete: the tokens
\* and the count collected before spec_idx, and the break at the first
\* EOS token (unless ignore_eos) or invalid token.
RECURSIVE speculation_loop(_, _, _, _, _, _, _)
speculation_loop(tokens, valid, spec_idx, tok_id_so_far, valid_tokens_count, eos_ids, ignore_eos) ==
    IF spec_idx > Len(tokens)
    THEN [tok_id_so_far |-> tok_id_so_far,
          valid_tokens_count |-> valid_tokens_count,
          complete |-> FALSE]
    ELSE LET tok_id == tokens[spec_idx]
             is_valid == valid[spec_idx]
         IN  IF (In(tok_id, eos_ids) /\ ~ignore_eos) \/ ~is_valid
             THEN IF is_valid /\ In(tok_id, eos_ids)
                  THEN [tok_id_so_far |-> Append(tok_id_so_far, tok_id),
                        valid_tokens_count |-> valid_tokens_count + 1,
                        complete |-> TRUE]
                  ELSE [tok_id_so_far |-> tok_id_so_far,
                        valid_tokens_count |-> valid_tokens_count,
                        complete |-> TRUE]
             ELSE speculation_loop(tokens, valid, spec_idx + 1,
                                   Append(tok_id_so_far, tok_id),
                                   valid_tokens_count + 1, eos_ids, ignore_eos)

\* The ablation of process_result_tokens that starts every call from the
\* length test alone and drops the completion flags handed in.
process_result_tokens_forgets_complete(slot_data, max_length, complete, eos_ids, ignore_eos) ==
    LET complete1 == [idx \in DOMAIN complete |-> slot_data.lengths[idx] > max_length]
        sample(idx) ==
            IF ~complete1[idx]
            THEN speculation_loop(slot_data.tokens[idx], slot_data.valid[idx], 1,
                                  <<>>, 0, eos_ids, ignore_eos)
            ELSE [tok_id_so_far |-> <<>>, valid_tokens_count |-> 0,
                  complete |-> FALSE]
    IN  [return_samples |->
            [idx \in DOMAIN complete |-> [token_ids |-> sample(idx).tok_id_so_far]],
         complete |->
            [idx \in DOMAIN complete |-> complete1[idx] \/ sample(idx).complete],
         num_valid_tokens_step |->
            [idx \in DOMAIN complete |-> sample(idx).valid_tokens_count]]

\* process_result_tokens with client-side tokenization, so that no text is
\* decoded: the token ids returned for every sample, the completion flags
\* and the number of tokens of this step.
process_result_tokens(slot_data, max_length, complete, eos_ids, ignore_eos) ==
    LET complete1 == [idx \in DOMAIN complete |->
                         complete[idx] \/ slot_data.lengths[idx] > max_length]
        sample(idx) ==
            IF ~complete1[idx]
            THEN speculation_loop(slot_data.tokens[idx], slot_data.valid[idx], 1,
                                  <<>>, 0, eos_ids, ignore_eos)
            ELSE [tok_id_so_far |-> <<>>, valid_tokens_count |-> 0,
                  complete |-> FALSE]
    IN  [return_samples |->
            [idx \in DOMAIN complete |-> [token_ids |-> sample(idx).tok_id_so_far]],
         complete |->
            [idx \in DOMAIN complete |-> complete1[idx] \/ sample(idx).complete],
         num_valid_tokens_step |->
            [idx \in DOMAIN complete |-> sample(idx).valid_tokens_count]]

\* A row of valid text tokens: what a sample that keeps generating delivers.
TextRow == [spec_idx \in 1..MaxSpeculations |-> TextToken]
ValidRow == [spec_idx \in 1..MaxSpeculations |-> TRUE]

\* The sample has met, in this call's data, one of the conditions that
\* end it: a length above the maximum, an EOS token that is not ignored,
\* or an invalid token.
EndsSample(slot_data, idx, ignore_eos) ==
    \/ slot_data.lengths[idx] > slot_max_length
    \/ \E spec_idx \in 1..MaxSpeculations :
          \/ ~slot_data.valid[idx][spec_idx]
          \/ In(slot_data.tokens[idx][spec_idx], eos_token_id) /\ ~ignore_eos

\* Before the first call no sample is complete.  ended records, beside the
\* code's own flags, the samples whose data has met an ending condition in
\* some call made so far.
InitResultTokens ==
    /\ sequence_buffer = SequenceBufferInit
    /\ requests = EmptyDict
    /\ scheduler_output = NoSchedulerOutput
    /\ pc = "idle"
    /\ start_index = 0
    /\ combined_selected_tokens = <<>>
    /\ forward_calls = <<>>
    /\ model_runner_output = None
    /\ error = None
    /\ sched = SchedInit
    /\ removed_req_indices = {}
    /\ misuse = FALSE
    /\ last_call = NoCall
    /\ pad_call = NoPadCall
    /\ sample_call = NoSampleCall
    /\ multifuture = NoMultifuture
    /\ metrics_recorder = NoMetricsRecorder
    /\ \E ignore_eos \in BOOLEAN :
          result_call = [op |-> "start",
                         ignore_eos |-> ignore_eos,
                         complete |-> [idx \in SampleIds |-> FALSE],
                         ended |-> [idx \in SampleIds |-> FALSE]]

\* One generation step: the engine hands over the slot's data and the
\* complete array the previous call returned.  One sample's row and length
\* are arbitrary, the other samples deliver valid text tokens within the
\* length limit.
CallProcessResultTokens ==
    /\ result_call.op # "none"
    /\ \E free \in SampleIds, tokens \in [1..MaxSpeculations -> {TextToken, EosToken}], valid \in [1..MaxSpeculations -> BOOLEAN], length \in {slot_max_length, slot_max_length + 1} :
          LET slot_data ==
                  [tokens |-> [idx \in SampleIds |-> IF idx = free THEN tokens ELSE TextRow],
                   valid |-> [idx \in SampleIds |-> IF idx = free THEN valid ELSE ValidRow],
                   lengths |-> [idx \in SampleIds |-> IF idx = free THEN length ELSE slot_max_length]]
              result == process_result_tokens(slot_data, slot_max_length, result_call.complete, eos_token_id, result_call.ignore_eos)
          IN  result_call' =
                  [op |-> "done",
                   ignore_eos |-> result_call.ignore_eos,
                   slot_data |-> slot_data,
                   complete_before |-> result_call.complete,
                   ended_before |-> result_call.ended,
                   return_samples |-> result.return_samples,
                   num_valid_tokens_step |-> result.num_valid_tokens_step,
                   complete |-> result.complete,
                   ended |-> [idx \in SampleIds |->
                                 \/ result_call.ended[idx]
                                 \/ EndsSample(slot_data, idx, result_call.ignore_eos)]]
    /\ UNCHANGED <<sequence_buffer, requests, scheduler_output, pc, start_index, combined_selected_tokens, forward_calls, model_runner_output, error, sched, removed_req_indices, misuse, last_call, pad_call, sample_call, multifuture, metrics_recorder>>

NextResultTokens == CallProcessResultTokens

SpecResultTokens == InitResultTokens /\ [][NextResultTokens]_vars

\* ------------------------------------------------------------------------
\* Properties
\* ------------------------------------------------------------------------
Batched(sb) == DOMAIN sb.req_id_to_index

\* Slots below num_reqs hold a request, slots from num_reqs on hold none.
DensePrefix(sb) ==
    \A i \in Slots :
        /\ i < num_reqs(sb) =>
              (i < Len(sb._req_ids) /\ sb._req_ids[i + 1] # NoReq)
        /\ i >= num_reqs(sb) =>
              (i >= Len(sb._req_ids) \/ sb._req_ids[i + 1] = NoReq)

\* req_id_to_index[r] = s exactly when _req_ids[s] = r
IndexMatches(sb) ==
    /\ \A r \in Batched(sb) :
          /\ sb.req_id_to_index[r] < Len(sb._req_ids)
          /\ sb._req_ids[sb.req_id_to_index[r] + 1] = r
    /\ \A i \in 1..Len(sb._req_ids) :
          sb._req_ids[i] # NoReq =>
              (sb._req_ids[i] \in Batched(sb) /\ sb.req_id_to_index[sb._req_ids[i]] = i - 1)

\* req_id_to_index is a bijection from the batched ids onto 0..num_reqs-1
IndexBijection(sb) ==
    /\ \A r1, r2 \in Batched(sb) :
          sb.req_id_to_index[r1] = sb.req_id_to_index[r2] => r1 = r2
    /\ {sb.req_id_to_index[r] : r \in Batched(sb)} = 0..(num_reqs(sb) - 1)

\* C1: after _update_states returns, whatever mix of finished, unscheduled,
\* new, continuing and resumed requests the steps carried, _req_ids has
\* length num_reqs, every slot below num_reqs holds a request id and no slot
\* from num_reqs on holds one.
C1_DenseAfterUpdateStates ==
    /\ Len(sequence_buffer._req_ids) = num_reqs(sequence_buffer)
    /\ DensePrefix(sequence_buffer)
    /\ \A i \in 1..Len(sequence_buffer._req_ids) : sequence_buffer._req_ids[i] \in ReqIds

\* C1 witness: _update_states has just reconciled a step that finished one
\* request, resumed another from preemption and brought a new one, after an
\* earlier step had left the buffer with requests to remove.
C1_Witness ==
    /\ pc = "loop"
    /\ scheduler_output.finished_req_ids # {}
    /\ scheduler_output.scheduled_new_reqs # <<>>
    /\ \E i \in DOMAIN scheduler_output.scheduled_cached_reqs :
          scheduler_output.scheduled_cached_reqs[i].resumed_from_preemption
    /\ num_reqs(sequence_buffer) = 2

\* C2 as stated: after any single add_request, remove_request or condense
\* call every slot below num_reqs is filled and every slot from num_reqs on
\* is empty.
C2_DenseAfterAnyCall ==
    last_call.op \in {"add_request", "remove_request", "condense"}
        => DensePrefix(sequence_buffer)

\* C2 amended: the dense prefix holds whenever no hole left by
\* remove_request is open, that is after condense was given the open holes
\* and after add_request refilled the last one (add_request(None) being
\* called only with no hole open); then _req_ids also has length num_reqs.
C2_DenseWhenNoHoleOpen ==
    (~misuse /\ removed_req_indices = {}) =>
        /\ DensePrefix(sequence_buffer)
        /\ Len(sequence_buffer._req_ids) = num_reqs(sequence_buffer)

\* C2 witness: condense has just closed two holes below a surviving request.
C2_Witness ==
    /\ last_call.op = "condense"
    /\ last_call.slots = {0, 1}
    /\ num_reqs(sequence_buffer) = 1

\* C3 as stated: at all times req_id_to_index is a bijection onto
\* 0..num_reqs-1 and agrees with _req_ids, also when add_request(None) is
\* issued with a hole open.
C3_BijectionAtAllTimes ==
    IndexBijection(sequence_buffer) /\ IndexMatches(sequence_buffer)

\* C3 amended: after every add_request, remove_request, swap_states and
\* condense each filled slot s has req_id_to_index[_req_ids[s]] = s. As long
\* as add_request(None) was never called with a hole open, also
\* req_id_to_index[r] = s only when _req_ids[s] = r (so the map is
\* injective), and its image is 0..num_reqs-1 whenever no hole is open.
\* add_request(None) with a hole open writes slot num_reqs, which may hold
\* a live request.
C3_IndexConsistent ==
    /\ \A i \in 1..Len(sequence_buffer._req_ids) :
          sequence_buffer._req_ids[i] # NoReq =>
              /\ sequence_buffer._req_ids[i] \in Batched(sequence_buffer)
              /\ sequence_buffer.req_id_to_index[sequence_buffer._req_ids[i]] = i - 1
    /\ ~misuse =>
          /\ IndexMatches(sequence_buffer)
          /\ removed_req_indices = {} => IndexBijection(sequence_buffer)

\* C3 witness: two requests were swapped while a hole was open.
C3_Witness ==
    /\ ~misuse
    /\ last_call.op = "swap_states"
    /\ removed_req_indices # {}
    /\ num_reqs(sequence_buffer) = 2

\* All the buffer keeps for the request in slot i.
RowData(sb, i) ==
    [tokens |-> [p \in 0..(sb.num_tokens[i] - 1) |-> sb.token_ids[i][p]],
     num_tokens |-> sb.num_tokens[i],
     num_prompt_tokens |-> sb.num_prompt_tokens[i],
     num_computed_tokens |-> sb.num_computed_tokens[i],
     temperature |-> sb.temperature[i],
     top_p |-> sb.top_p[i],
     top_k |-> sb.top_k[i],
     min_p |-> sb.min_p[i],
     frequency_penalty |-> sb.frequency_penalties[i],
     presence_penalty |-> sb.presence_penalties[i],
     repetition_penalty |-> sb.repetition_penalties[i],
     page_row |-> sb.page_table[i],
     min_tokens |-> IF i \in DOMAIN sb.min_tokens THEN Some(sb.min_tokens[i]) ELSE None,
     generator_seed |->
         IF i \in DOMAIN sb.generator_seeds THEN Some(sb.generator_seeds[i]) ELSE None,
     bad_words |->
         IF i \in DOMAIN sb.bad_words_token_ids
         THEN Some(sb.bad_words_token_ids[i]) ELSE None,
     logit_bias |-> sb.logit_bias[i],
     allowed_mask |->
         IF sb.allowed_token_ids_mask = None THEN None
         ELSE Some(sb.allowed_token_ids_mask[1][i]),
     output_ref |-> sb.req_output_token_ids[i + 1]]

\* C4: condense, called with the slots of the removed requests, keeps every
\* surviving request batched and leaves its tokens, counters, sampling
\* scalars, page-table row and slot-keyed sparse entries unchanged at the
\* slot req_id_to_index maps it to afterwards.
C4_CondensePreservesRows ==
    [][BufCondense =>
          /\ Batched(sequence_buffer') = Batched(sequence_buffer)
          /\ \A r \in Batched(sequence_buffer) :
                RowData(sequence_buffer', sequence_buffer'.req_id_to_index[r])
                    = RowData(sequence_buffer, sequence_buffer.req_id_to_index[r])]_vars

\* C4 witness: condense has moved request C, which carries a generator
\* seed, an allowed-token mask and bad words, down into a freed slot.
C4_Witness ==
    /\ last_call.op = "condense"
    /\ "C" \in Batched(sequence_buffer)
    /\ sequence_buffer.req_id_to_index["C"] \in last_call.slots
    /\ num_reqs(sequence_buffer) = 2

\* The step under way: its scheduled requests, and for each the count of
\* computed tokens the scheduler reported with it.
Scheduled == DOMAIN scheduler_output.num_scheduled_tokens

ReportedComputed(r) ==
    IF \E i \in DOMAIN scheduler_output.scheduled_cached_reqs :
          scheduler_output.scheduled_cached_reqs[i].req_id = r
    THEN LET i == CHOOSE j \in DOMAIN scheduler_output.scheduled_cached_reqs :
                     scheduler_output.scheduled_cached_reqs[j].req_id = r
         IN  scheduler_output.scheduled_cached_reqs[i].num_computed_tokens
    ELSE 0

\* seq_len < num_tokens: r is still inside its prompt after this step
PartWay(r) ==
    requests[r].num_computed_tokens + scheduler_output.num_scheduled_tokens[r]
        < RequestNumTokens(requests[r])

\* execute_model leaves the sub-batch loop and ends, by return or by raise
StepEnds ==
    /\ pc = "loop"
    /\ start_index >= num_reqs(sequence_buffer)
    /\ pc' # "loop"

\* C5 as stated: when the step ends, every batched request in slot i with
\* seq_len >= num_tokens has the token sampled for slot i at
\* token_ids[i, seq_len] and at the end of its output_token_ids, and
\* num_tokens[i] is one more than before.
C5_CommitRule ==
    [][StepEnds =>
          \A i \in 0..(num_reqs(sequence_buffer) - 1) :
             LET r == sequence_buffer._req_ids[i + 1]
                 seq_len == seq_len_of(requests, sequence_buffer, scheduler_output, i)
                 t == Concat(combined_selected_tokens)[i + 1]
             IN  ~PartWay(r) =>
                    /\ sequence_buffer'.token_ids[i][seq_len] = t
                    /\ requests'[r].output_token_ids =
                           Append(requests[r].output_token_ids, t)
                    /\ sequence_buffer'.num_tokens[i] = sequence_buffer.num_tokens[i] + 1]_vars

\* C6: from the end of _update_states to the end of the step, a scheduled
\* request that stays inside its prompt (num_computed_tokens + scheduled <
\* num_tokens) gets no token appended to its output_token_ids and keeps its
\* token_ids row and its num_tokens.
C6_PromptChunkDiscard ==
    [][pc = "loop" =>
          \A r \in Scheduled :
             PartWay(r) =>
                LET i == sequence_buffer.req_id_to_index[r]
                IN  /\ requests'[r].output_token_ids = requests[r].output_token_ids
                    /\ sequence_buffer'.req_id_to_index[r] = i
                    /\ sequence_buffer'.token_ids[i] = sequence_buffer.token_ids[i]
                    /\ sequence_buffer'.num_tokens[i] = sequence_buffer.num_tokens[i]]_vars

\* C6 witness: a step ended in which one request stayed inside its prompt
\* while another had consumed its prompt.
C6_Witness ==
    /\ pc = "raised"
    /\ start_index >= num_reqs(sequence_buffer)
    /\ \E r \in Scheduled : PartWay(r)
    /\ \E r \in Scheduled : ~PartWay(r)

\* C7 as stated: a step in which some batched request stays inside its
\* prompt ends by returning a ModelRunnerOutput whose entry is empty for that
\* slot and holds one token for every slot that consumed its prompt.
C7_PartialPromptStepReturns ==
    [][(StepEnds /\ \E r \in Scheduled : PartWay(r)) =>
          /\ pc' = "returned"
          /\ model_runner_output' # None
          /\ \A i \in 0..(num_reqs(sequence_buffer) - 1) :
                Len(model_runner_output'[1].sampled_token_ids[i + 1]) =
                    (IF PartWay(sequence_buffer._req_ids[i + 1]) THEN 0 ELSE 1)]_vars

RECURSIVE SumOver(_, _)
SumOver(f, S) ==
    IF S = {} THEN 0
    ELSE LET x == CHOOSE y \in S : TRUE IN f[x] + SumOver(f, S \ {x})

\* C8: in every transition the number of tokens appended to the
\* output_token_ids of the requests equals the number of tokens in the
\* sampled_token_ids entries of the ModelRunnerOutput returned by it (none
\* when it returns no output), so the totals agree over any run; a request
\* state created by a step starts with no output.
C8_TokenConservation ==
    [][LET kept == DOMAIN requests \cap DOMAIN requests'
           appended ==
               SumOver([r \in kept |->
                          Len(requests'[r].output_token_ids)
                              - Len(requests[r].output_token_ids)], kept)
           entries == IF pc # "returned" /\ pc' = "returned"
                      THEN model_runner_output'[1].sampled_token_ids ELSE <<>>
           reported == SumOver([k \in DOMAIN entries |-> Len(entries[k])], DOMAIN entries)
       IN  /\ appended = reported
           /\ \A r \in kept :
                 Len(requests'[r].output_token_ids) >= Len(requests[r].output_token_ids)
           /\ \A r \in DOMAIN requests' \ DOMAIN requests :
                 requests'[r].output_token_ids = <<>>]_vars

\* C8 witness: a step returned two committed tokens for three slots' worth
\* of history: one request already had output before it.
C8_Witness ==
    /\ pc = "returned"
    /\ model_runner_output # None
    /\ Len(model_runner_output[1].sampled_token_ids) = 2
    /\ \A k \in 1..2 : Len(model_runner_output[1].sampled_token_ids[k]) = 1
    /\ \E r \in DOMAIN requests : Len(requests[r].output_token_ids) = 2

\* C9 as stated: when execute_model has returned from a step that scheduled
\* s tokens for a request the scheduler reported at c computed tokens, the
\* runner holds c + s for it.
C9_ComputedAdvancedByStep ==
    pc = "returned" =>
        \A r \in Scheduled :
           /\ requests[r].num_computed_tokens =
                  ReportedComputed(r) + scheduler_output.num_scheduled_tokens[r]
           /\ sequence_buffer.num_computed_tokens[sequence_buffer.req_id_to_index[r]] =
                  ReportedComputed(r) + scheduler_output.num_scheduled_tokens[r]

\* C9 amended: execute_model does not advance num_computed_tokens. During
\* and after a step that schedules s tokens for a request reported at c, the
\* request state and its buffer row both hold c; c + s is the scheduler's
\* count, which reaches the runner when a later SchedulerOutput reports it
\* in scheduled_cached_reqs.
C9_ComputedFollowsScheduler ==
    pc \in {"loop", "returned", "raised"} =>
        \A r \in Scheduled :
           /\ requests[r].num_computed_tokens = ReportedComputed(r)
           /\ sequence_buffer.num_computed_tokens[sequence_buffer.req_id_to_index[r]] =
                  ReportedComputed(r)
           /\ sched[r].num_computed_tokens =
                  ReportedComputed(r) + scheduler_output.num_scheduled_tokens[r]

\* C9 witness: a step returned in which a batched request continued from a
\* count above zero.
C9_Witness ==
    /\ pc = "returned"
    /\ \E r \in Scheduled :
          /\ ReportedComputed(r) > 0
          /\ requests[r].num_computed_tokens = ReportedComputed(r)
          /\ Len(requests[r].output_token_ids) = 2

\* C10: with n requests in the buffer and at most c per forward pass, the
\* k-th forward call covers the slots [(k-1)c, min(kc, n)), the loop is left
\* after exactly ceil(n/c) calls with one sampled token per slot, and the
\* returned req_ids and sampled_token_ids follow the slots 0..n-1.
C10_SubBatching ==
    (pc \in {"loop", "returned", "raised"} /\ scheduler_output.total_num_scheduled_tokens > 0) =>
        LET n == num_reqs(sequence_buffer)
            c == num_reqs_max_model_len
            sampled == Concat(combined_selected_tokens)
        IN  /\ c >= 1
            /\ \A k \in 1..Len(forward_calls) :
                  /\ forward_calls[k].start_index = (k - 1) * c
                  /\ forward_calls[k].end_index = Min(k * c, n)
                  /\ forward_calls[k].num_reqs =
                         forward_calls[k].end_index - forward_calls[k].start_index
                  /\ forward_calls[k].num_reqs >= 1
                  /\ Len(combined_selected_tokens[k]) = forward_calls[k].num_reqs
            /\ Len(forward_calls) = Len(combined_selected_tokens)
            /\ start_index = Min(Len(forward_calls) * c, n)
            /\ Len(forward_calls) <= CeilDiv(n, c)
            /\ (start_index >= n \/ pc = "returned") =>
                  /\ Len(forward_calls) = CeilDiv(n, c)
                  /\ Len(sampled) = n
            /\ pc = "returned" =>
                  /\ model_runner_output[1].req_ids = sequence_buffer._req_ids
                  /\ Len(model_runner_output[1].sampled_token_ids) = n
                  /\ \A i \in 1..n :
                        /\ model_runner_output[1].req_id_to_index[
                               model_runner_output[1].req_ids[i]] = i - 1
                        /\ model_runner_output[1].sampled_token_ids[i] \in {<<>>, <<sampled[i]>>}

\* C10 witness: a step over three requests returned after two forward
\* calls whose second sub-batch sampled a token different from the first's.
C10_Witness ==
    /\ pc = "returned"
    /\ num_reqs(sequence_buffer) = 3
    /\ Len(forward_calls) = 2
    /\ combined_selected_tokens[2][1] # combined_selected_tokens[1][1]

\* ------------------------------------------------------------------------
\* C11  An empty step (total_num_scheduled_tokens = 0) reconciles the state
\* and returns a ModelRunnerOutput whose req_ids, req_id_to_index and
\* sampled_token_ids are all empty; nothing is raised and neither the forward
\* pass nor the sampler is called.
\* ------------------------------------------------------------------------
EmptyStep == pc # "idle" /\ scheduler_output.total_num_scheduled_tokens = 0

C11_EmptyStepReturnsEmptyOutput ==
    EmptyStep =>
        /\ pc = "returned"
        /\ model_runner_output = Some(EmptyModelRunnerOutput)
        /\ error = None
        /\ forward_calls = <<>>
        /\ combined_selected_tokens = <<>>

\* an empty step that still had a finished request to reconcile
C11_Witness ==
    /\ EmptyStep
    /\ pc = "returned"
    /\ scheduler_output.finished_req_ids # {}
    /\ num_reqs(sequence_buffer) = 0

\* ------------------------------------------------------------------------
\* C12  A failing forward pass or sampler writes no partial state: every
\* step of the sub-batch loop that does not end in the commit (a sub-batch
\* that succeeds, one that fails, also after earlier ones succeeded) leaves
\* every request's output_token_ids and the buffer's token_ids and
\* num_tokens as reconcile left them; so they are when the failure is
\* raised.
\* ------------------------------------------------------------------------
ForwardFailed == pc = "raised" /\ error = Some("ForwardFailure")

InSubBatchLoop == pc = "loop" /\ start_index < num_reqs(sequence_buffer)

\* the slots of the sub-batch that starts at start_index
SubBatchSlots ==
    start_index ..
        (Min(start_index + num_reqs_max_model_len, num_reqs(sequence_buffer)) - 1)

SubBatchTokens ==
    SumOver([i \in SubBatchSlots |->
               scheduler_output.num_scheduled_tokens[sequence_buffer._req_ids[i + 1]]],
            SubBatchSlots)

LargestBucket == SetMax({num_tokens_paddings[k] : k \in DOMAIN num_tokens_paddings})

C13_CapacityExceededFailsBeforeForward ==
    [][InSubBatchLoop /\ SubBatchTokens > LargestBucket =>
          /\ pc' = "raised"
          /\ error' # None
          /\ forward_calls' = forward_calls
          /\ combined_selected_tokens' = combined_selected_tokens
          /\ requests' = requests
          /\ sequence_buffer' = sequence_buffer]_vars

\* a sub-batch over the largest bucket was refused, nothing forwarded
C13_Witness ==
    /\ pc = "raised"
    /\ error = Some("ValueError")
    /\ start_index < num_reqs(sequence_buffer)
    /\ SubBatchTokens > LargestBucket
    /\ Len(forward_calls) = start_index \div num_reqs_max_model_len
    /\ \A r \in DOMAIN requests : requests[r].output_token_ids = <<>>

\* ------------------------------------------------------------------------
\* C14  Removing a request that was never added.
\* ------------------------------------------------------------------------
\* the ids of the next step's finished_req_ids the scheduler never gave the
\* runner
NeverAddedFinished ==
    {r \in scheduler_output'.finished_req_ids : sched[r].status = "none"}

\* C14 as stated: a SchedulerOutput whose finished_req_ids holds an id that
\* was never added makes execute_model fail, so the call returns no output.
C14_RemoveNeverAddedFails ==
    [][pc = "idle" /\ NeverAddedFinished # {} => pc' # "returned"]_vars

\* C14 as the code has it: a finished id that was never added is ignored.
\* Nothing is raised for it, and reconcile leaves requests and buffer as it
\* leaves them for the same SchedulerOutput without that id; the step then
\* returns at once when empty and enters the sub-batch loop when not.
C14_RemoveNeverAddedIsIgnored ==
    [][pc = "idle" /\ NeverAddedFinished # {} =>
          LET so == [scheduler_output' EXCEPT
                        !.finished_req_ids = @ \ NeverAddedFinished]
              u == _update_states(requests, sequence_buffer, so)
          IN  /\ error' = None
              /\ requests' = u.requests
              /\ sequence_buffer' = u.sequence_buffer
              /\ pc' = IF scheduler_output'.total_num_scheduled_tokens = 0
                       THEN "returned" ELSE "loop"]_vars

\* a step that named a never-added id finished, and a request that was
\* batched, went through to its output
C14_Witness ==
    /\ pc = "returned"
    /\ \E r \in scheduler_output.finished_req_ids : sched[r].status = "never"
    /\ DOMAIN requests # {}
    /\ \A q \in DOMAIN requests : Len(requests[q].output_token_ids) >= 1
    /\ model_runner_output # None
    /\ model_runner_output[1].req_ids # <<>>

\* ------------------------------------------------------------------------
\* C15  Scheduling an unknown request: a SchedulerOutput that schedules a
\* req_id never given to the runner, in scheduled_cached_reqs or only as a
\* key of num_scheduled_tokens, makes execute_model fail; so no call that
\* was handed such an output returns one.
\* ------------------------------------------------------------------------
ScheduledIds(so) ==
    DOMAIN so.num_scheduled_tokens
    \cup {so.scheduled_cached_reqs[i].req_id : i \in DOMAIN so.scheduled_cached_reqs}

UnknownScheduled ==
    {r \in ScheduledIds(scheduler_output) : sched[r].status = "never"}

C15_UnknownScheduledIdFails ==
    UnknownScheduled # {} => pc # "returned"

\* ------------------------------------------------------------------------
\* C16  Preempt and resume: when a request that is batched is reported with
\* resumed_from_preemption = True and new_page_ids = Q, then after reconcile
\* its page_ids is exactly Q and its page-table row is exactly Q.
\* ------------------------------------------------------------------------
C16_ResumeReplacesPages ==
    [][pc = "idle" =>
          \A i \in DOMAIN scheduler_output'.scheduled_cached_reqs :
             LET data == scheduler_output'.scheduled_cached_reqs[i]
                 req_id == data.req_id
             IN  (/\ data.resumed_from_preemption
                  /\ req_id \in DOMAIN sequence_buffer.req_id_to_index
                  /\ pc' # "raised")
                 => /\ requests'[req_id].page_ids = data.new_page_ids
                    /\ sequence_buffer'.page_table[
                           sequence_buffer'.req_id_to_index[req_id]]
                         = data.new_page_ids]_vars

\* ------------------------------------------------------------------------
\* C17  Page coverage: for every batched request at every step,
\* len(page_ids) * page_size >= num_computed_tokens + scheduled tokens, so
\* every logical page index the slot mapper looks up for that request lies
\* within the pages the request owns.
\* ------------------------------------------------------------------------
\* the pages a scheduled request owns cover the tokens it has and is given
PagesCoverTokens ==
    \A r \in Batched(sequence_buffer) \cap Scheduled :
        Len(requests[r].page_ids) * page_size
            >= requests[r].num_computed_tokens
               + scheduler_output.num_scheduled_tokens[r]

\* each forward call of the step looked up, for its j-th request, only
\* logical pages below the number of pages that request owns
LookupsWithinOwnedPages ==
    \A c \in DOMAIN forward_calls :
    \A j \in 1..forward_calls[c].num_reqs :
        LET req_id == sequence_buffer._req_ids[forward_calls[c].start_index + j]
        IN  \A lookup \in forward_calls[c].page_lookups[j] :
                lookup.local_page < Len(requests[req_id].page_ids)

C17_PageCoverage ==
    pc # "idle" => PagesCoverTokens /\ LookupsWithinOwnedPages

C17_PagesCoverTokens == pc # "idle" => PagesCoverTokens

\* ------------------------------------------------------------------------
\* C18  _get_padded_token_len returns, for every n not above the largest
\* bucket, the smallest element of the bucket list that is >= n; applied to
\* its own result it returns the same value.
\* ------------------------------------------------------------------------
PaddedTokenLenDone == pad_call.op = "done" /\ pad_call.fn = "_get_padded_token_len"

C18_SmallestBucketAtLeastN ==
    (/\ PaddedTokenLenDone
     /\ pad_call.paddings # <<>>
     /\ pad_call.x <= pad_call.paddings[Len(pad_call.paddings)])
    => /\ pad_call.result # None
       /\ pad_call.result[1] \in SeqToSet(pad_call.paddings)
       /\ pad_call.result[1] >= pad_call.x
       /\ \A b \in SeqToSet(pad_call.paddings) :
             b >= pad_call.x => pad_call.result[1] <= b
       /\ pad_call.again = pad_call.result

\* n is itself a bucket below the largest one of a list of three or more
C18_Witness ==
    /\ PaddedTokenLenDone
    /\ Len(pad_call.paddings) >= 3
    /\ pad_call.x = pad_call.paddings[2]
    /\ pad_call.result = Some(pad_call.x)
    /\ pad_call.again = pad_call.result

\* ------------------------------------------------------------------------
\* C19  Slice padding.
\* ------------------------------------------------------------------------
PaddedSlicesDone ==
    pad_call.op = "done" /\ pad_call.fn = "_get_padded_num_kv_cache_update_slices"

\* C19 as stated: for all num_tokens, max_num_reqs, page_size and
\* num_slices_per_kv_cache_update_page, _get_padded_num_kv_cache_update_slices
\* applied to its own result returns that same result.
C19_SlicePaddingIdempotent ==
    PaddedSlicesDone => pad_call.again = pad_call.result

\* C19 as the code has it: a second application never returns more than the
\* first, and returns the same when the first result r satisfies
\* r <= 2 * max_num_reqs + r div page_size; above that it may return less.
C19_SlicePaddingShrinks ==
    PaddedSlicesDone =>
        /\ pad_call.again <= pad_call.result
        /\ (pad_call.result
                <= 2 * pad_call.max_num_reqs
                   + pad_call.result \div pad_call.page_size)
            => pad_call.again = pad_call.result

\* a token count whose padded slice count is padded to less the second time
C19_Witness ==
    /\ PaddedSlicesDone
    /\ pad_call.again < pad_call.result
    /\ pad_call.num_slices_per_kv_cache_update_page > 1

\* ------------------------------------------------------------------------
\* C20  The token padding buckets cover the model length: for every
\* max_token_size the list _get_token_paddings(16, max_token_size, gap) is
\* non-empty, strictly increasing, and its largest element is
\* >= max_token_size.
\* ------------------------------------------------------------------------
TokenPaddingsDone == pad_call.op = "done" /\ pad_call.fn = "_get_token_paddings"

C20_TokenPaddingsCover ==
    TokenPaddingsDone =>
        /\ pad_call.result # <<>>
        /\ \A i \in 1..(Len(pad_call.result) - 1) :
              pad_call.result[i] < pad_call.result[i + 1]
        /\ pad_call.result[Len(pad_call.result)] >= pad_call.max_token_size

\* ------------------------------------------------------------------------
\* C21  Slot mapper round trip: in a sub-batch that starts at slot 0, copying
\* for each emitted triple slice_len entries from the new-K/V buffer at
\* new_kv_start_index to the cache at kv_cache_start_index places the k-th
\* scheduled token of request i (position p = num_computed_tokens[i] + k,
\* buffer index = tokens scheduled for the requests before i, plus k) at
\* cache index page_table[i][p div page_size] * page_size + p mod page_size,
\* and writes no other cache position.
\* ------------------------------------------------------------------------
\* the copies the triples of a forward call describe: <<cache index, buffer index>>
CopiesOf(call) ==
    UNION {{<<call.slot_mapping_metadata[m].kv_cache_start_index + t,
              call.slot_mapping_metadata[m].new_kv_start_index + t>> :
               t \in 0..(call.slot_mapping_metadata[m].slice_len - 1)} :
           m \in DOMAIN call.slot_mapping_metadata}

ScheduledOfSlot(i) == scheduler_output.num_scheduled_tokens[sequence_buffer._req_ids[i + 1]]

\* the tokens of a forward call: <<slot, k>> with k below the slot's scheduled count
TokensOfCall(call) ==
    {<<i, k>> \in (0..(call.num_reqs - 1)) \X (0..(max_model_len - 1)) :
        k < ScheduledOfSlot(i)}

\* the copies the claim asks for, computed token by token
GroundTruth(call) ==
    {<<sequence_buffer.page_table[ik[1]][
            (sequence_buffer.num_computed_tokens[ik[1]] + ik[2]) \div page_size + 1]
          * page_size
          + ((sequence_buffer.num_computed_tokens[ik[1]] + ik[2]) % page_size),
       SumOver([q \in 0..(ik[1] - 1) |-> ScheduledOfSlot(q)], 0..(ik[1] - 1)) + ik[2]>> :
        ik \in TokensOfCall(call)}

C21_SlotMapperRoundTrip ==
    \A c \in DOMAIN forward_calls :
        forward_calls[c].start_index = 0
        => CopiesOf(forward_calls[c]) = GroundTruth(forward_calls[c])

\* a sub-batch at slot 0 with two requests, one of them written across a
\* page boundary and ending inside a page
C21_Witness ==
    \E c \in DOMAIN forward_calls :
        /\ forward_calls[c].start_index = 0
        /\ forward_calls[c].num_reqs = 2
        /\ Len(forward_calls[c].slot_mapping_metadata) >= 3
        /\ \E m \in DOMAIN forward_calls[c].slot_mapping_metadata :
              forward_calls[c].slot_mapping_metadata[m].slice_len < page_size
        /\ \E m \in DOMAIN forward_calls[c].slot_mapping_metadata :
              forward_calls[c].slot_mapping_metadata[m].kv_cache_start_index % page_size # 0

\* ------------------------------------------------------------------------
\* C23  Greedy sentinel: in every sampler call the temperature entry handed
\* to the sampling kernel for a greedy request's row is exactly -1, in
\* all-greedy batches and in mixed batches alike.
\* ------------------------------------------------------------------------
SamplerCalled == sample_call.op = "done"

\* the sampling parameters of the request in slot i
ParamsOfSlot(i) == requests[sequence_buffer._req_ids[i + 1]].sampling_params

GreedySlots ==
    {i \in 0..(num_reqs(sequence_buffer) - 1) : ParamsOfSlot(i).sampling_type = "GREEDY"}

TopPSlots ==
    {i \in 0..(num_reqs(sequence_buffer) - 1) :
        ParamsOfSlot(i).sampling_type = "RANDOM" /\ ParamsOfSlot(i).top_p < 10}

TopKSlots ==
    {i \in 0..(num_reqs(sequence_buffer) - 1) :
        0 < ParamsOfSlot(i).top_k /\ ParamsOfSlot(i).top_k < vocab_size}

\* the k tokens with the highest logits of a row
TopK(row, k) == {ranking(row, DOMAIN row)[r] : r \in 1..k}

C24_MixedSampling ==
    (SamplerCalled /\ GreedySlots # {} /\ TopPSlots # {} /\ TopKSlots # {}) =>
        /\ DOMAIN sample_call.selected_token_ids = 0..(num_reqs(sequence_buffer) - 1)
        /\ \A i \in GreedySlots :
              sample_call.selected_token_ids[i] = argmax(sample_call.logits[i])
        /\ \A i \in TopPSlots :
              sample_call.selected_token_ids[i] \in
                  sample_top_p_efficient(sample_call.logits[i], ParamsOfSlot(i).top_p,
                                         ParamsOfSlot(i).temperature, vocab_size)
        /\ \A i \in TopKSlots :
              sample_call.selected_token_ids[i] \in
                  TopK(sample_call.logits[i], ParamsOfSlot(i).top_k)

\* ------------------------------------------------------------------------
\* C25  The buffer row mirrors the persistent request: for every batched
\* request, after any sequence of reconcile and commit steps (removal as
\* unscheduled and later re-add included), num_tokens[slot] =
\* num_prompt_tokens[slot] + len(output_token_ids), and token_ids[slot,
\* 0..num_tokens) is the prompt tokens followed by the output tokens.
\* ------------------------------------------------------------------------
RowMirrorsRequest(r) ==
    LET slot == sequence_buffer.req_id_to_index[r]
        all_token_ids == requests[r].prompt_token_ids \o requests[r].output_token_ids
    IN  /\ r \in DOMAIN requests
        /\ sequence_buffer.num_tokens[slot] =
              sequence_buffer.num_prompt_tokens[slot] + Len(requests[r].output_token_ids)
        /\ \A p \in 0..(sequence_buffer.num_tokens[slot] - 1) :
              /\ p < Len(all_token_ids)
              /\ sequence_buffer.token_ids[slot][p] = all_token_ids[p + 1]

C25_RowMirrorsRequest ==
    pc \in {"idle", "returned"} =>
        \A r \in Batched(sequence_buffer) : RowMirrorsRequest(r)

\* a step has returned with a request that was added again with an output
\* token already generated (num_tokens_no_spec keeps the count at the last
\* add_request) and that has been given another one since
C25_Witness ==
    /\ pc = "returned"
    /\ \E r \in Batched(sequence_buffer) :
          LET slot == sequence_buffer.req_id_to_index[r]
          IN  /\ sequence_buffer.num_tokens_no_spec[slot] >
                    sequence_buffer.num_prompt_tokens[slot]
              /\ sequence_buffer.num_tokens[slot] >
                    sequence_buffer.num_tokens_no_spec[slot]
              /\ RowMirrorsRequest(r)

\* ------------------------------------------------------------------------
\* C26  AsyncMultifuture delivers in order: results are yielded to the
\* consumer in the order add_result was called, and an exception set by
\* set_exception, close or cancel is raised to the consumer only after every
\* result added before it has been yielded; none is lost or overtaken,
\* whichever threads the producers call from.
\* ------------------------------------------------------------------------
Results(items) == SelectSeq(items, LAMBDA it : ~it.is_exception)

C26_DeliversInOrder ==
    multifuture.op = "live" =>
        /\ \A k \in DOMAIN Results(multifuture.yielded) :
              Results(multifuture.yielded)[k].value = k
        /\ \A k \in DOMAIN multifuture.yielded :
              multifuture.yielded[k].is_exception
              => Len(Results(SubSeq(multifuture.yielded, 1, k - 1)))
                    >= multifuture.yielded[k].results_before

\* two results, then an exception set after both, all delivered
C26_Witness ==
    /\ multifuture.op = "live"
    /\ Len(multifuture.yielded) = 3
    /\ multifuture.yielded[3].is_exception
    /\ multifuture.yielded[3].results_before = 2

\* ------------------------------------------------------------------------
\* C27  set_exception can be called several times and every call after the
\* first is ignored: for any sequence of close, cancel and set_exception
\* calls only the first exception is ever raised to the consumer, however
\* many times __anext__ is awaited afterwards.
\* ------------------------------------------------------------------------
C27_OnlyFirstExceptionRaised ==
    multifuture.op = "live" =>
        \A k \in DOMAIN multifuture.yielded :
            multifuture.yielded[k].is_exception => multifuture.yielded[k].nth = 1

\* ------------------------------------------------------------------------
\* C28  done() is true exactly when the multifuture has been finalized: it
\* is never true before close(), set_exception() or cancel() has been
\* called, it is true as soon as such a call has returned, and whenever it
\* is true the terminal exception item is already in the queue.
\* ------------------------------------------------------------------------
ExceptionQueued == \E k \in DOMAIN multifuture._queue : multifuture._queue[k].is_exception

ExceptionDelivered ==
    \E k \in DOMAIN multifuture.yielded : multifuture.yielded[k].is_exception

C28_DoneIffFinalized ==
    multifuture.op = "live" =>
        /\ done(multifuture) => multifuture.finalize_calls > 0
        /\ multifuture.finalize_returned > 0 => done(multifuture)
        /\ done(multifuture) => ExceptionQueued

\* C28 as the code has it: done() is never true before a finalizing call;
\* it is true once such a call has returned and the loop has run the
\* callbacks handed to it; and whenever it is true the terminal exception
\* item has been put in the queue (where it waits, unless the consumer has
\* taken it already).
C28_DoneOnceLoopRan ==
    multifuture.op = "live" =>
        /\ done(multifuture) => multifuture.finalize_calls > 0
        /\ (multifuture.finalize_returned > 0 /\ multifuture._loop = <<>>)
              => done(multifuture)
        /\ done(multifuture) => (ExceptionQueued \/ ExceptionDelivered)

\* close() has returned, the loop has run its callbacks, the item waits
C28_Witness ==
    /\ multifuture.op = "live"
    /\ multifuture.finalize_returned > 0
    /\ multifuture._loop = <<>>
    /\ done(multifuture)
    /\ ExceptionQueued

\* ------------------------------------------------------------------------
\* C29  MetricsRecorder updates are thread-safe and bounded: under any
\* interleaving of record_prefill_op_time calls from several threads,
\* prefill_ops_count equals the number of completed calls (no update is
\* lost) and prefill_op_ms holds the most recent min(calls, _max_list_len)
\* recorded durations, never more than _max_list_len entries.  Stated for
\* what a holder of the lock can see: the state with the lock free.
\* ------------------------------------------------------------------------
C29_ThreadSafeAndBounded ==
    (metrics_recorder.op = "live" /\ metrics_recorder._lock = "free") =>
        /\ metrics_recorder.metrics.prefill_ops_count = Len(metrics_recorder.recorded)
        /\ metrics_recorder.metrics.prefill_op_ms =
              LastN(metrics_recorder.recorded, _max_list_len)
        /\ Len(metrics_recorder.metrics.prefill_op_ms) <= _max_list_len

\* more calls than the list keeps have completed, while another thread waits
C29_Witness ==
    /\ metrics_recorder.op = "live"
    /\ metrics_recorder._lock = "free"
    /\ Len(metrics_recorder.recorded) > _max_list_len
    /\ Len(metrics_recorder.metrics.prefill_op_ms) = _max_list_len
    /\ \E t \in MrThreads : metrics_recorder.threads[t].pc = "lock"

\* ------------------------------------------------------------------------
\* C30  pad_tokens returns as its third value the length to which the
\* arrays were padded or truncated, that is the chosen bucket length (the
\* length of the padded arrays), for every input length and bucket list.
\* ------------------------------------------------------------------------
PadTokensDone == pad_call.op = "done" /\ pad_call.fn = "pad_tokens"

C30_ThirdValueIsPaddedLength ==
    PadTokensDone =>
        /\ pad_call.result.length = Len(pad_call.result.padded_tokens)
        /\ Len(pad_call.result.padded_valids) = Len(pad_call.result.padded_tokens)
\* ------------------------------------------------------------------------
\* C31: every per-request input of a sub-batch that starts at start_index > 0
\* is read from the sub-batch's own slots: for its j-th request the positions
\* start at num_computed_tokens[start_index + j], the input ids are gathered
\* from token_ids[start_index + j], seq_lens is num_computed_tokens
\* [start_index + j] plus the scheduled count, and the page-table row and the
\* slot-mapping page lookups are those of slot start_index + j (j from 0).
\* ------------------------------------------------------------------------
OwnInputs(call) ==
    LET per_req == call.num_scheduled_tokens_per_req
        req_indices == req_indices_of(per_req)
        arange == arange_of(per_req)
        sb == sequence_buffer
    IN  /\ \A k \in DOMAIN call.positions :
              LET slot == call.start_index + req_indices[k]
                  position == sb.num_computed_tokens[slot] + arange[k]
              IN  /\ call.positions[k] = position
                  /\ call.input_ids[k] = sb.token_ids[slot][position]
        /\ \A j \in 1..call.num_reqs :
              LET slot == call.start_index + j - 1
              IN  /\ call.seq_lens[j] = sb.num_computed_tokens[slot] + per_req[j]
                  /\ call.pages_tables[j] = sb.page_table[slot]
                  /\ \A l \in call.page_lookups[j] : l.req_idx = slot

C31_SubBatchReadsOwnSlots ==
    pc = "loop" =>
        \A c \in DOMAIN forward_calls :
            forward_calls[c].start_index > 0 => OwnInputs(forward_calls[c])

\* ------------------------------------------------------------------------
\* C32: in every sub-batch, row j of the sampling metadata handed to the
\* sampler (temperature, top_p, top_k, min_p) holds the sampling parameters
\* of slot start_index + j, the request whose logits are in row j, and the
\* rows beyond the sub-batch's requests hold the padding values.  Stated for
\* buffers with at least one random request; the metadata of an all-greedy
\* buffer is the subject of C23.
\* ------------------------------------------------------------------------
\* the metadata execute_model builds for a forward call (lines 566-569)
SamplingMetadataOf(call) ==
    from_sequence_buffer(sequence_buffer, call.padded_num_reqs, FALSE)

SamplingRowsOwn(call) ==
    LET md == SamplingMetadataOf(call)
        sb == sequence_buffer
    IN  \A j \in 0..(call.padded_num_reqs - 1) :
            IF j < call.num_reqs
            THEN LET slot == call.start_index + j
                 IN  /\ md.temperature[j] = sb.temperature[slot]
                     /\ md.top_p[j] = sb.top_p[slot]
                     /\ md.top_k[j] = sb.top_k[slot]
                     /\ md.min_p[j] = sb.min_p[slot]
            ELSE /\ md.temperature[j] = -10
                 /\ md.top_p[j] = 10
                 /\ md.top_k[j] = 0
                 /\ md.min_p[j] = 0

C32_SamplingRowsOfSubBatch ==
    (pc = "loop" /\ ~all_greedy(sequence_buffer)) =>
        \A c \in DOMAIN forward_calls : SamplingRowsOwn(forward_calls[c])

\* ------------------------------------------------------------------------
\* C33: add_request initializes every per-slot sampling array entry from the
\* request.  After add_request(req, slot) into any slot, a reused one
\* included, temperature, top_p, top_k, min_p and the frequency, presence and
\* repetition penalties at that slot are the request's values (temperature
\* -1 if greedy, top_k = vocab_size if disabled); nothing is left over from
\* the slot's previous occupant.
\* ------------------------------------------------------------------------
SamplingRowFromRequest(slot) ==
    LET sb == sequence_buffer
        sp == requests[sb._req_ids[slot + 1]].sampling_params
    IN  /\ sb.temperature[slot] =
               (IF sp.sampling_type = "GREEDY" THEN -10 ELSE sp.temperature)
        /\ sb.top_p[slot] = sp.top_p
        /\ sb.top_k[slot] =
               (IF 0 < sp.top_k /\ sp.top_k < vocab_size THEN sp.top_k ELSE vocab_size)
        /\ sb.min_p[slot] = sp.min_p
        /\ sb.frequency_penalties[slot] = sp.frequency_penalty
        /\ sb.presence_penalties[slot] = sp.presence_penalty
        /\ sb.repetition_penalties[slot] = sp.repetition_penalty

C33_AddRequestInitializesSamplingArrays ==
    (last_call.op = "add_request" /\ ~misuse) =>
        \A slot \in last_call.slots : SamplingRowFromRequest(slot)

\* ------------------------------------------------------------------------
\* C34: membership bookkeeping is consistent after every add_request,
\* remove_request, swap_states and condense.  Each membership set (greedy,
\* random, top_p, top_k, min_p, the three penalty sets, allowed-token)
\* contains only req_ids that are batched now, every batched request is in
\* exactly one of greedy and random (the one its sampling type names), and
\* all_greedy is true iff no batched request is random.
\* ------------------------------------------------------------------------
MembershipSets(sb) ==
    {sb.greedy_reqs, sb.random_reqs, sb.top_p_reqs, sb.top_k_reqs, sb.min_p_reqs,
     sb.frequency_penalties_reqs, sb.presence_penalties_reqs,
     sb.repetition_penalties_reqs, sb.has_allowed_token_ids}

IsRandom(r) == requests[r].sampling_params.sampling_type # "GREEDY"

C34_MembershipConsistent ==
    LET sb == sequence_buffer
        batched == DOMAIN sb.req_id_to_index
    IN  /\ \A S \in MembershipSets(sb) : S \subseteq batched
        /\ \A r \in batched :
              /\ (r \in sb.greedy_reqs) # (r \in sb.random_reqs)
              /\ (r \in sb.random_reqs) = IsRandom(r)
        /\ all_greedy(sb) = (\A r \in batched : ~IsRandom(r))

\* condense has just closed a hole left by a removed request, and a greedy
\* and a random request are still batched
C34_Witness ==
    /\ last_call.op = "condense"
    /\ last_call.slots # {}
    /\ sequence_buffer.greedy_reqs # {}
    /\ sequence_buffer.random_reqs # {}
    /\ DOMAIN sequence_buffer.req_id_to_index # ReqIds

\* ------------------------------------------------------------------------
\* C35: swap_states(i, j) on two filled slots is a symmetrical exchange of
\* all per-slot state (request id, req_id_to_index, token row, counters,
\* sampling scalars, page-table rows, slot-keyed sparse maps, logit_bias,
\* allowed-token mask); every other slot is left unchanged, and swapping the
\* same two slots again restores the buffer exactly.  The swaps are
\* interleaved with add_request, remove_request and condense in any order.
\* ------------------------------------------------------------------------
\* everything the buffer holds for slot i
SlotState(sb, i) ==
    [req_id |-> IF i < Len(sb._req_ids) THEN sb._req_ids[i + 1] ELSE NoReq,
     index |-> {r \in DOMAIN sb.req_id_to_index : sb.req_id_to_index[r] = i},
     token_row |-> sb.token_ids[i],
     num_tokens_no_spec |-> sb.num_tokens_no_spec[i],
     row |-> RowData([sb EXCEPT !.req_output_token_ids =
                                   [k \in 1..max_num_reqs |->
                                      IF k <= Len(@) THEN @[k] ELSE NoReq]], i)]

C35_SwapIsSymmetricExchange ==
    [][BufSwapStates =>
          \E i1, i2 \in last_call'.slots :
              /\ i1 < i2
              /\ SlotState(sequence_buffer', i1) = SlotState(sequence_buffer, i2)
              /\ SlotState(sequence_buffer', i2) = SlotState(sequence_buffer, i1)
              /\ \A k \in Slots \ {i1, i2} :
                    SlotState(sequence_buffer', k) = SlotState(sequence_buffer, k)
              /\ swap_states(sequence_buffer', i1, i2) = sequence_buffer]_vars

\* B (min_tokens, logit_bias) and C (generator seed, allowed-token mask, bad
\* words) have just been swapped while a hole left by remove_request is
\* still waiting for condense
C35_Witness ==
    /\ last_call.op = "swap_states"
    /\ removed_req_indices # {}
    /\ \E i1, i2 \in last_call.slots :
          /\ sequence_buffer._req_ids[i1 + 1] = "C"
          /\ sequence_buffer._req_ids[i2 + 1] = "B"
          /\ i1 < i2
    /\ sequence_buffer.allowed_token_ids_mask # None

\* ------------------------------------------------------------------------
\* C36: structure of the slot-mapping triples, for scheduled counts >= 1.
\* Exactly one triple is emitted per logical page touched by each request,
\* request after request and page after page; every triple has
\* 1 <= slice_len <= page_size and stays inside one physical page
\* (kv_cache_start_index mod page_size + slice_len <= page_size);
\* new_kv_start_index of a triple is the sum of the slice_len of the triples
\* before it; and the slice_len sum is the total of the scheduled tokens.
\* ------------------------------------------------------------------------
SlotMappingDone ==
    pad_call.op = "done" /\ pad_call.fn = "_get_slot_mapping_metadata"

\* the logical pages the tokens nc .. nc + count - 1 fall in, in order
PagesTouched(nc, count) ==
    SortAsc({t \div page_size : t \in nc..(nc + count - 1)})

\* the physical pages the requests touch, request after request
PhysicalPagesTouched(nc, sc) ==
    Concat([j \in DOMAIN nc |->
              LET touched == PagesTouched(nc[j], sc[j])
              IN  [l \in DOMAIN touched |->
                      SlotBuffer(nc).page_table[j - 1][touched[l] + 1]]])

C36_TripleStructure ==
    SlotMappingDone =>
        LET md == pad_call.slot_mapping_metadata
            nc == pad_call.num_computed_tokens
            sc == pad_call.num_scheduled_tokens_per_req
        IN  /\ [m \in DOMAIN md |-> md[m].kv_cache_start_index \div page_size]
                   = PhysicalPagesTouched(nc, sc)
            /\ \A m \in DOMAIN md :
                  /\ 1 <= md[m].slice_len
                  /\ md[m].slice_len <= page_size
                  /\ (md[m].kv_cache_start_index % page_size) + md[m].slice_len
                         <= page_size
                  /\ md[m].new_kv_start_index =
                         SeqSum([e \in 1..(m - 1) |-> md[e].slice_len])
            /\ SeqSum([m \in DOMAIN md |-> md[m].slice_len]) = SeqSum(sc)

\* two or more requests, one of them starting in the middle of a page and
\* running over three pages, so that a triple covers a whole page
C36_Witness ==
    /\ SlotMappingDone
    /\ Len(pad_call.num_scheduled_tokens_per_req) >= 2
    /\ \E j \in DOMAIN pad_call.num_scheduled_tokens_per_req :
          /\ pad_call.num_computed_tokens[j] % page_size # 0
          /\ Len(PagesTouched(pad_call.num_computed_tokens[j],
                              pad_call.num_scheduled_tokens_per_req[j])) = 3
    /\ \E m \in DOMAIN pad_call.slot_mapping_metadata :
          /\ m > 1
          /\ pad_call.slot_mapping_metadata[m].slice_len = page_size

\* ------------------------------------------------------------------------
\* C37: the number of slot-mapping triples emitted for a sub-batch never
\* exceeds padded_num_slices computed from the padded token count, so the
\* zero padding of the triple array to padded_num_slices has a non-negative
\* length, for every combination of up to max_num_reqs requests with
\* scheduled counts >= 1 and any num_computed_tokens offsets.
\* ------------------------------------------------------------------------
C37_TriplesFitPaddedSlices ==
    SlotMappingDone =>
        /\ pad_call.num_kv_update_slices <= pad_call.padded_num_slices
        /\ pad_call.pad_width >= 0

\* max_num_reqs requests, each of them writing into two pages
C37_Witness ==
    /\ SlotMappingDone
    /\ Len(pad_call.num_scheduled_tokens_per_req) = max_num_reqs
    /\ pad_call.num_kv_update_slices >= 2 * max_num_reqs
    /\ pad_call.num_slices_per_kv_cache_update_page = 1

\* ------------------------------------------------------------------------
\* C38: after _update_states, every batched req_id is scheduled in this step
\* (a key of num_scheduled_tokens) and present in the runner's requests map;
\* the finished requests are in neither the requests map nor the buffer; and
\* a request dropped from the buffer only because it was left unscheduled
\* keeps its entry in the requests map, output tokens included.
\* ------------------------------------------------------------------------
\* execute_model has run _update_states without an error
Reconciled == pc = "idle" /\ pc' # "idle" /\ error' = None

C38_ReconcileMembership ==
    [][Reconciled =>
          LET so == scheduler_output'
              batched == DOMAIN sequence_buffer'.req_id_to_index
              dropped == (DOMAIN sequence_buffer.req_id_to_index)
                             \ (so.finished_req_ids \cup DOMAIN so.num_scheduled_tokens)
          IN  /\ batched \subseteq DOMAIN so.num_scheduled_tokens
              /\ batched \subseteq DOMAIN requests'
              /\ so.finished_req_ids \cap DOMAIN requests' = {}
              /\ so.finished_req_ids \cap batched = {}
              /\ \A r \in dropped :
                    /\ r \in DOMAIN requests'
                    /\ r \notin batched
                    /\ requests'[r].output_token_ids = requests[r].output_token_ids
                    /\ requests'[r].prompt_token_ids = requests[r].prompt_token_ids]_vars

\* a step that reported a request finished while another request, left
\* unscheduled earlier with an output token to its name, is still known to
\* the runner but not batched
C38_Witness ==
    /\ pc = "loop"
    /\ scheduler_output.finished_req_ids # {}
    /\ DOMAIN sequence_buffer.req_id_to_index # {}
    /\ \E r \in DOMAIN requests :
          /\ r \notin DOMAIN sequence_buffer.req_id_to_index
          /\ requests[r].output_token_ids # <<>>

\* ------------------------------------------------------------------------
\* C39: after _update_states, for every batched request the buffer's
\* num_computed_tokens at its slot equals the num_computed_tokens of its
\* persistent request state, so input assembly (which reads the buffer) and
\* the commit decision (which reads the request state) use the same value:
\* across adds into holes, condense moves and updates of continuing requests.
\* ------------------------------------------------------------------------
C39_ComputedTokensAgree ==
    pc \in {"loop", "returned"} =>
        \A r \in DOMAIN sequence_buffer.req_id_to_index :
            sequence_buffer.num_computed_tokens[sequence_buffer.req_id_to_index[r]]
                = requests[r].num_computed_tokens

\* a step with two continuing requests and no new one, the buffer holding
\* B in slot 0 and A in slot 1, both with tokens computed and A with output
\* tokens of its own
C39_Witness ==
    /\ pc = "loop"
    /\ Len(scheduler_output.scheduled_cached_reqs) >= 2
    /\ scheduler_output.scheduled_new_reqs = <<>>
    /\ num_reqs(sequence_buffer) = 2
    /\ sequence_buffer._req_ids = <<"B", "A">>
    /\ requests["A"].output_token_ids # <<>>
    /\ \A r \in DOMAIN sequence_buffer.req_id_to_index :
          requests[r].num_computed_tokens > 0


\* The first column of a sample's row that ends the sample: an invalid token,
\* or an EOS token while EOS is not ignored; one past the row if there is none.
FirstEnd(slot_data, idx, ignore_eos) ==
    LET ends == {spec_idx \in 1..MaxSpeculations :
                    \/ ~slot_data.valid[idx][spec_idx]
                    \/ In(slot_data.tokens[idx][spec_idx], eos_token_id) /\ ~ignore_eos}
    IN  IF ends = {} THEN MaxSpeculations + 1
        ELSE CHOOSE spec_idx \in ends : \A other \in ends : spec_idx <= other

\* C40: completion is sticky over the calls made for a slot, each call being
\* handed the complete array the previous one returned.  A sample whose data
\* has met an ending condition in this or an earlier call (an EOS token with
\* ignore_eos false, an invalid token, a length above slot_max_length) has
\* its complete flag set; a sample that met one in an earlier call gets an
\* empty token_ids list and a count of 0 whatever tokens the call is handed;
\* and the tokens a call emits for a sample are the leading columns of its
\* row, none of them after the first ending column.
C40_CompletionSticky ==
    result_call.op = "done" =>
        \A idx \in SampleIds :
            LET token_ids == result_call.return_samples[idx].token_ids
            IN  /\ result_call.ended[idx] => result_call.complete[idx]
                /\ result_call.complete_before[idx] => result_call.complete[idx]
                /\ result_call.ended_before[idx] =>
                      /\ token_ids = <<>>
                      /\ result_call.num_valid_tokens_step[idx] = 0
                /\ Len(token_ids) <= FirstEnd(result_call.slot_data, idx, result_call.ignore_eos)
                /\ Len(token_ids) <= MaxSpeculations
                /\ \A i \in 1..Len(token_ids) :
                      token_ids[i] = result_call.slot_data.tokens[idx][i]

\* A call in which one sample, ended by an earlier call, is handed a full row
\* of valid text tokens and emits none, while another sample emits the tokens
\* up to its EOS token and completes.
C40_Witness ==
    /\ result_call.op = "done"
    /\ ~result_call.ignore_eos
    /\ \E idx \in SampleIds, other \in SampleIds :
          /\ idx # other
          /\ result_call.ended_before[idx]
          /\ result_call.slot_data.tokens[idx] = TextRow
          /\ result_call.slot_data.valid[idx] = ValidRow
          /\ result_call.slot_data.lengths[idx] <= slot_max_length
          /\ result_call.return_samples[idx].token_ids = <<>>
          /\ result_call.num_valid_tokens_step[idx] = 0
          /\ ~result_call.complete_before[other]
          /\ result_call.slot_data.tokens[other] = <<TextToken, EosToken>>
          /\ result_call.return_samples[other].token_ids = <<TextToken, EosToken>>
          /\ result_call.complete[other]

====
